---- MODULE Spec2Model ----
(***************************************************************************)
(* A model of the Live Session Bridge (app/live_server.py) and of the      *)
(* Specialist Task Handler (specialist_agents/*/task_manager.py).          *)
(*                                                                         *)
(* The bridge runs on one asyncio event loop: code between two awaits is   *)
(* one atomic step, and every await is a point where another task may run, *)
(* where the awaited call may raise, and where a requested cancellation is *)
(* delivered.  Each action below is one such step.                         *)
(***************************************************************************)
EXTENDS Integers, Sequences, FiniteSets, TLC

(***************************************************************************)
(* Bounds of the model.                                                    *)
(***************************************************************************)
\* events and client messages one connection receives, together
MaxInputs == 3

\* events and client messages two concurrent connections receive, together
MaxSharedInputs == 1

Conns == {"c1", "c2"}
\* the connection slot in use when connections come one after the other
Single == {"c1"}
SessionIds == {"s1", "s2"}

(***************************************************************************)
(* Session state maps.  A state map is a dict; a key that is not in the    *)
(* dict is Unset.  A delta is a dict too; a key it does not carry is       *)
(* NoChange.                                                               *)
(***************************************************************************)
Keys == {"mock_a2a_calls", "k"}
Unset == "unset"
NoChange == "nochange"
EmptyState == [key \in Keys |-> Unset]
EmptyDelta == [key \in Keys |-> NoChange]

DeltaOf(key, value) == [EmptyDelta EXCEPT ![key] = value]

\* `if state_delta:` -- a dict is truthy when it has at least one key.
NonEmpty(delta) == \E key \in Keys : delta[key] # NoChange

\* a fault: the delta replaces the state map instead of updating it
ReplaceState(state, delta) ==
    [key \in Keys |-> IF delta[key] # NoChange THEN delta[key] ELSE Unset]

\* session.state.update(state_delta)
UpdateState(state, delta) ==
    [key \in Keys |-> IF delta[key] # NoChange THEN delta[key] ELSE state[key]]

NoSession == [exists |-> FALSE, state |-> EmptyState]
NewSession == [exists |-> TRUE, state |-> EmptyState]

(***************************************************************************)
(* base64, as the standard library computes it (validate=False): characters*)
(* outside the alphabet are discarded, "=" ends the data, the data is      *)
(* decoded in groups of four sextets, and a short last group needs its     *)
(* padding.  Bytes are numbers 0..255, strings are sequences of characters.*)
(***************************************************************************)
B64Alphabet ==
    << "A","B","C","D","E","F","G","H","I","J","K","L","M","N","O","P",
       "Q","R","S","T","U","V","W","X","Y","Z","a","b","c","d","e","f",
       "g","h","i","j","k","l","m","n","o","p","q","r","s","t","u","v",
       "w","x","y","z","0","1","2","3","4","5","6","7","8","9","+","/" >>

IsB64Char(ch) == \E i \in 1..64 : B64Alphabet[i] = ch
SextetOf(ch) == (CHOOSE i \in 1..64 : B64Alphabet[i] = ch) - 1

RECURSIVE CountPad(_)
CountPad(str) ==
    IF str = << >> THEN 0
    ELSE (IF Head(str) = "=" THEN 1 ELSE 0) + CountPad(Tail(str))

RECURSIVE DecodeSextets(_)
DecodeSextets(sx) ==
    IF Len(sx) < 2 THEN << >>
    ELSE LET b1 == sx[1] * 4 + (sx[2] \div 16)
         IN  IF Len(sx) = 2 THEN << b1 >>
             ELSE LET b2 == (sx[2] % 16) * 16 + (sx[3] \div 4)
                  IN  IF Len(sx) = 3 THEN << b1, b2 >>
                      ELSE << b1, b2, (sx[3] % 4) * 64 + sx[4] >>
                           \o DecodeSextets(SubSeq(sx, 5, Len(sx)))

B64Error == << -1 >>

\* base64.b64decode(str): the bytes, or B64Error where it raises binascii.Error
b64decode(str) ==
    LET data == SelectSeq(str, IsB64Char)
        sx   == [i \in 1..Len(data) |-> SextetOf(data[i])]
        pad  == CountPad(str)
        rest == Len(data) % 4
    IN  IF rest = 1 THEN B64Error
        ELSE IF rest = 2 /\ pad < 2 THEN B64Error
        ELSE IF rest = 3 /\ pad < 1 THEN B64Error
        ELSE DecodeSextets(sx)

RECURSIVE b64encode(_)
b64encode(bytes) ==
    IF bytes = << >> THEN << >>
    ELSE LET c1 == B64Alphabet[(bytes[1] \div 4) + 1]
         IN  IF Len(bytes) = 1
             THEN << c1, B64Alphabet[(bytes[1] % 4) * 16 + 1], "=", "=" >>
             ELSE LET c2 == B64Alphabet[(bytes[1] % 4) * 16 + (bytes[2] \div 16) + 1]
                  IN  IF Len(bytes) = 2
                      THEN << c1, c2, B64Alphabet[(bytes[2] % 16) * 4 + 1], "=" >>
                      ELSE << c1, c2,
                              B64Alphabet[(bytes[2] % 16) * 4 + (bytes[3] \div 64) + 1],
                              B64Alphabet[(bytes[3] % 64) + 1] >>
                           \o b64encode(SubSeq(bytes, 4, Len(bytes)))


(***************************************************************************)
(* Upstream events (google.adk Event) and client messages, drawn from      *)
(* small sets.  A part is text, inline audio, or inline data of another    *)
(* MIME type.                                                              *)
(***************************************************************************)
AudioPart(bytes) == [kind |-> "audio", data |-> bytes]
TextPart == [kind |-> "text", data |-> << >>]
ImagePart == [kind |-> "image", data |-> << 7 >>]

Ev(int, parts, tc, delta, art) ==
    [interrupted |-> int, parts |-> parts, turn_complete |-> tc,
     state_delta |-> delta, artifact_delta |-> art]

Events ==
    { Ev(TRUE,  << >>, FALSE, EmptyDelta, FALSE),
      Ev(FALSE, << AudioPart(<< 65 >>) >>, TRUE, DeltaOf("k", "a"), FALSE),
      Ev(TRUE,  << AudioPart(<< 65, 66 >>) >>, TRUE, DeltaOf("mock_a2a_calls", "false"), FALSE),
      Ev(FALSE, << TextPart, AudioPart(<< 65 >>) >>, FALSE, EmptyDelta, TRUE),
      Ev(FALSE, << ImagePart >>, FALSE, DeltaOf("k", "b"), FALSE) }

\* A client message as received by websocket.receive_json(): data.get("type"),
\* data.get("data", ""), data.get("value", False).
Msg(type, data, value) == [type |-> type, data |-> data, value |-> value]

AudioData ==
    { << >>, << "=", "=", "=", "=" >>, << "Q", "Q", "=", "=" >>, << "Q" >> }

\* the text of a text message is carried as a sequence of characters too
TextData == { << >>, << "h", "i" >> }

Msgs ==
    { Msg("audio", d, "false") : d \in AudioData }
    \cup { Msg("text", d, "false") : d \in TextData }
    \cup { Msg("toggle_mock", << >>, v) : v \in {"true", "false"} }
    \cup { Msg("end_of_turn", << >>, "false"), Msg("bogus", << >>, "false") }

(***************************************************************************)
(* The state of the bridge.                                                *)
(***************************************************************************)
VARIABLES
    runner,                 \* the module's `runner` is set (the example server
                            \* creates it at startup and may be left without)
    session_store,          \* session_service: session id -> stored session
    endpoint,               \* where websocket_endpoint of a connection stands
    session_id,             \* the {session_id} of the connection's URL
    session,                \* the handler's local `session` (None = NoSession)
    live_request_queue,     \* [created, items]: the command sink
    adk_run_task,           \* [st, cancel]: the task running adk_to_client
    client_listener_task,   \* [st, cancel]: the task running client_to_adk
    adk_at,                 \* [at, event]: the await adk_to_client stands at
    ws_out,                 \* what websocket.send_json has sent, in order
    ws_close,               \* the code websocket.close was called with, 0 if not
    events_in,              \* history: the events adk_to_client has received
    msgs_in,                \* history: the messages client_to_adk has received
    applied                 \* history: the deltas append_event was called with

bridgeVars ==
    << runner, session_store, endpoint, session_id, session, live_request_queue,
       adk_run_task, client_listener_task, adk_at, ws_out, ws_close,
       events_in, msgs_in, applied >>

\* the state of the Specialist Task Handler
VARIABLES
    manager,                \* which task manager the server runs
    tasks,                  \* InMemoryTaskManager: task id -> stored task
    tasks_log,              \* per task id, the states written to the store, in order
    pc,                     \* the await each invocation of on_send_task stands at
    request,                \* [id, task_id, parts]: the invocation's request
    task,                   \* the invocation's local `task`
    user_query,             \* the invocation's local `symbol` / `user_query`
    result,                 \* mcp_result / adk_result_dict
    exit_stack,             \* `exit_stack` is not None
    resources,              \* [open, closed]: the invocation's worker resources
    run_events,             \* number of events the agent run has yielded
    worker_calls,           \* how often the invocation started its worker
    worker_raised,          \* the worker raised into on_send_task
    response                \* the SendTaskResponse returned

taskVars == << manager, tasks, tasks_log, pc, request, task, user_query, result, exit_stack,
               resources, run_events, worker_calls, worker_raised, response >>

\* the state of the host agent's tools: discovery and delegation
VARIABLES
    base_urls,                      \* number of entries of SPECIALIST_AGENT_BASE_URLS
    startup,                        \* where initialize_specialist_agents_discovery stands
    visited,                        \* number of sources it has fetched from
    DISCOVERED_SPECIALIST_AGENTS,   \* the registry: name -> agent card
    delegation,                     \* [pc, fn, name, a2a_response, ret]: the tool call in hand
    sent_tasks,                     \* the task params handed to send_task, in order
    calls                           \* number of tool calls made

hostVars == << base_urls, startup, visited, DISCOVERED_SPECIALIST_AGENTS,
               delegation, sent_tasks, calls >>

NoTask == [st |-> "none", cancel |-> FALSE]
Running == [st |-> "running", cancel |-> FALSE]
NoEvent == Ev(FALSE, << >>, FALSE, EmptyDelta, FALSE)

Blob(bytes) == [kind |-> "blob", data |-> bytes, text |-> << >>]
Content(text) == [kind |-> "content", data |-> << >>, text |-> text]
Close == [kind |-> "close", data |-> << >>, text |-> << >>]

BridgeInit ==
    /\ session_store = [s \in SessionIds |-> NoSession]
    /\ endpoint = [c \in Conns |-> "idle"]
    /\ session_id = [c \in Conns |-> "s1"]
    /\ session = [c \in Conns |-> NoSession]
    /\ live_request_queue = [c \in Conns |-> [created |-> FALSE, items |-> << >>]]
    /\ adk_run_task = [c \in Conns |-> NoTask]
    /\ client_listener_task = [c \in Conns |-> NoTask]
    /\ adk_at = [c \in Conns |-> [at |-> "next", event |-> NoEvent]]
    /\ ws_out = [c \in Conns |-> << >>]
    /\ ws_close = [c \in Conns |-> 0]
    /\ events_in = [c \in Conns |-> << >>]
    /\ msgs_in = [c \in Conns |-> << >>]
    /\ applied = [c \in Conns |-> << >>]

(***************************************************************************)
(* session_service (InMemorySessionService), as the bridge calls it.       *)
(***************************************************************************)
\* a fault: the lookup finds no session
session_not_found(store, sid) == NoSession

\* get_session: a copy of the stored session, None when there is none
get_session(store, sid) == store[sid]

\* create_session(..., state={})
create_session(store, sid) == [store EXCEPT ![sid] = NewSession]

\* append_event(session, event): the delta goes into the stored session of
\* that id, when there is one (and into the session object passed in, which
\* the caller replaces by a reload right away)
\* a fault: the event is appended nowhere
append_event_dropped(store, sid, delta) == store

append_event_store(store, sid, delta) ==
    IF store[sid].exists
    THEN [store EXCEPT ![sid].state = UpdateState(@, delta)]
    ELSE store

delete_session(store, sid) == [store EXCEPT ![sid] = NoSession]

\* LiveRequestQueue.send_realtime / send_content / close: put on the queue
\* a fault: the queue hands out the newest item first
PutFront(items, item) == << item >> \o items

Put(items, item) == Append(items, item)

(***************************************************************************)
(* websocket_endpoint: the handler of one connection.                      *)
(***************************************************************************)
Live(c) == endpoint[c] \in {"wait", "await_task"}

\* One duplex client connection per session id (the id is the key of the URL).
SessionIdFree(s) == \A c \in Conns : Live(c) => session_id[c] # s

Done(aio_task) == aio_task.st = "done"

\* a fault: the pending task is left running
leave_running(aio_task) == aio_task

\* `if not task.done(): task.cancel()`
cancel(aio_task) ==
    IF aio_task.st = "running" THEN [aio_task EXCEPT !.cancel = TRUE] ELSE aio_task

\* `if live_request_queue: live_request_queue.close()`
close_queue(queue) ==
    IF queue.created THEN [queue EXCEPT !.items = Put(@, Close)] ELSE queue

\* a fault: the finally block removes every session of the store
clear_sessions(store, sess, sid) ==
    IF sess.exists THEN [s \in SessionIds |-> NoSession] ELSE store

\* a fault: the finally block leaves the session in the store
keep_session(store, sess, sid) == store

\* `if session: session_service.delete_session(...)`
cleanup_session(store, sess, sid) ==
    IF sess.exists THEN delete_session(store, sid) ELSE store

\* the finally block of websocket_endpoint; it holds no await
final_cleanup(c) ==
    /\ live_request_queue' = [live_request_queue EXCEPT ![c] = close_queue(@)]
    /\ adk_run_task' = [adk_run_task EXCEPT ![c] = cancel(@)]
    /\ client_listener_task' = [client_listener_task EXCEPT ![c] = cancel(@)]
    /\ session_store' = cleanup_session(session_store, session[c], session_id[c])
    /\ endpoint' = [endpoint EXCEPT ![c] = "exited"]

\* A connection slot is free before its first connection and again once the
\* handler has exited and its relay tasks have finished; the next connection on
\* it starts from fresh locals.
Free(c) ==
    /\ endpoint[c] \in {"idle", "exited"}
    /\ adk_run_task[c].st # "running"
    /\ client_listener_task[c].st # "running"

fresh_connection(c, s) ==
    /\ session_id' = [session_id EXCEPT ![c] = s]
    /\ adk_at' = [adk_at EXCEPT ![c] = [at |-> "next", event |-> NoEvent]]
    /\ ws_out' = [ws_out EXCEPT ![c] = << >>]
    /\ events_in' = [events_in EXCEPT ![c] = << >>]
    /\ msgs_in' = [msgs_in EXCEPT ![c] = << >>]
    /\ applied' = [applied EXCEPT ![c] = << >>]

\* accept, get or create the session, create the queue, start run_live and the
\* two relay tasks, and wait for the first of them to finish
websocket_open(c, s) ==
    /\ runner
    /\ Free(c)
    /\ fresh_connection(c, s)
    /\ IF get_session(session_store, s).exists
       THEN /\ session' = [session EXCEPT ![c] = get_session(session_store, s)]
            /\ UNCHANGED session_store
       ELSE /\ session_store' = create_session(session_store, s)
            /\ session' = [session EXCEPT ![c] = NewSession]
    /\ live_request_queue' =
          [live_request_queue EXCEPT ![c] = [created |-> TRUE, items |-> << >>]]
    /\ adk_run_task' = [adk_run_task EXCEPT ![c] = Running]
    /\ client_listener_task' = [client_listener_task EXCEPT ![c] = Running]
    /\ endpoint' = [endpoint EXCEPT ![c] = "wait"]
    /\ ws_close' = [ws_close EXCEPT ![c] = 0]
    /\ UNCHANGED << runner, taskVars, hostVars >>

\* `if not runner:` of the example server: the socket is closed with 1011 and
\* the handler returns before its try block
websocket_not_ready(c, s) ==
    /\ ~ runner
    /\ Free(c)
    /\ fresh_connection(c, s)
    /\ session' = [session EXCEPT ![c] = NoSession]
    /\ live_request_queue' =
          [live_request_queue EXCEPT ![c] = [created |-> FALSE, items |-> << >>]]
    /\ adk_run_task' = [adk_run_task EXCEPT ![c] = NoTask]
    /\ client_listener_task' = [client_listener_task EXCEPT ![c] = NoTask]
    /\ ws_close' = [ws_close EXCEPT ![c] = 1011]
    /\ endpoint' = [endpoint EXCEPT ![c] = "exited"]
    /\ UNCHANGED session_store
    /\ UNCHANGED << runner, taskVars, hostVars >>

\* a fault: the handler catches the store's exception and closes nothing
websocket_refused_silently(c, s) ==
    /\ runner
    /\ Free(c)
    /\ fresh_connection(c, s)
    /\ session' = [session EXCEPT ![c] = NoSession]
    /\ live_request_queue' =
          [live_request_queue EXCEPT ![c] = [created |-> FALSE, items |-> << >>]]
    /\ adk_run_task' = [adk_run_task EXCEPT ![c] = NoTask]
    /\ client_listener_task' = [client_listener_task EXCEPT ![c] = NoTask]
    /\ ws_close' = [ws_close EXCEPT ![c] = 0]
    /\ endpoint' = [endpoint EXCEPT ![c] = "exited"]
    /\ UNCHANGED session_store
    /\ UNCHANGED << runner, taskVars, hostVars >>

\* the session store raises on get_session / create_session: the handler's
\* `except Exception` closes the socket with 1011; the finally block finds no
\* queue, no task and no session
websocket_refused(c, s) ==
    /\ runner
    /\ Free(c)
    /\ fresh_connection(c, s)
    /\ session' = [session EXCEPT ![c] = NoSession]
    /\ live_request_queue' =
          [live_request_queue EXCEPT ![c] = [created |-> FALSE, items |-> << >>]]
    /\ adk_run_task' = [adk_run_task EXCEPT ![c] = NoTask]
    /\ client_listener_task' = [client_listener_task EXCEPT ![c] = NoTask]
    /\ ws_close' = [ws_close EXCEPT ![c] = 1011]
    /\ endpoint' = [endpoint EXCEPT ![c] = "exited"]
    /\ UNCHANGED session_store
    /\ UNCHANGED << runner, taskVars, hostVars >>

\* the handler has its session and then raises before the relay tasks exist
\* (LiveRequestQueue(), RunConfig(...) or runner.run_live(...) raises):
\* `except Exception` closes the socket with 1011, and the finally block
\* closes the queue if there is one and deletes the session
websocket_setup_fails(c, s, queued) ==
    LET store == IF get_session(session_store, s).exists THEN session_store
                 ELSE create_session(session_store, s)
    IN  /\ runner
        /\ Free(c)
        /\ fresh_connection(c, s)
        /\ session' = [session EXCEPT ![c] = get_session(store, s)]
        /\ live_request_queue' =
              [live_request_queue EXCEPT
                  ![c] = close_queue([created |-> queued, items |-> << >>])]
        /\ adk_run_task' = [adk_run_task EXCEPT ![c] = cancel(NoTask)]
        /\ client_listener_task' = [client_listener_task EXCEPT ![c] = cancel(NoTask)]
        /\ session_store' = cleanup_session(store, get_session(store, s), s)
        /\ ws_close' = [ws_close EXCEPT ![c] = 1011]
        /\ endpoint' = [endpoint EXCEPT ![c] = "exited"]
        /\ UNCHANGED << runner, taskVars, hostVars >>

\* asyncio.wait(..., FIRST_COMPLETED) returns: cancel what is pending and await
\* it; with nothing pending the handler falls through to the finally block
bridge_first_completed(c) ==
    /\ endpoint[c] = "wait"
    /\ Done(adk_run_task[c]) \/ Done(client_listener_task[c])
    /\ IF Done(adk_run_task[c]) /\ Done(client_listener_task[c])
       THEN final_cleanup(c)
       ELSE /\ adk_run_task' = [adk_run_task EXCEPT ![c] = cancel(@)]
            /\ client_listener_task' = [client_listener_task EXCEPT ![c] = cancel(@)]
            /\ endpoint' = [endpoint EXCEPT ![c] = "await_task"]
            /\ UNCHANGED << session_store, live_request_queue >>
    /\ UNCHANGED << session_id, session, adk_at, ws_out, ws_close,
                    events_in, msgs_in, applied >>
    /\ UNCHANGED << runner, taskVars, hostVars >>

\* `with suppress(asyncio.CancelledError): await task` returns
bridge_task_awaited(c) ==
    /\ endpoint[c] = "await_task"
    /\ Done(adk_run_task[c]) /\ Done(client_listener_task[c])
    /\ final_cleanup(c)
    /\ UNCHANGED << session_id, session, adk_at, ws_out, ws_close,
                    events_in, msgs_in, applied >>
    /\ UNCHANGED << runner, taskVars, hostVars >>

\* the handler's own task is cancelled while it waits in asyncio.wait (server
\* shutdown): `except asyncio.CancelledError`, then the finally block.  A
\* cancellation that arrives during `await task` is passed on to that task,
\* which is being cancelled already.
endpoint_cancelled(c) ==
    /\ endpoint[c] = "wait"
    /\ final_cleanup(c)
    /\ UNCHANGED << session_id, session, adk_at, ws_out, ws_close,
                    events_in, msgs_in, applied >>
    /\ UNCHANGED << runner, taskVars, hostVars >>

(***************************************************************************)
(* adk_to_client: the upstream relay loop.  It awaits the next event and   *)
(* each websocket.send_json.                                               *)
(***************************************************************************)
WsMsg(type, data) == [type |-> type, data |-> data]

\* a fault: every part of the event is searched for audio
SendsAnyAudio(e) == \E i \in DOMAIN e.parts : e.parts[i].kind = "audio"

\* `event.content and event.content.parts`, then parts[0] only
SendsAudio(e) == e.parts # << >> /\ e.parts[1].kind = "audio"

\* the message each send of the loop sends for event e
MessageAt(at, e) ==
    IF at = "audio" THEN WsMsg("audio", b64encode(e.parts[1].data))
    ELSE WsMsg(at, << >>)

Rank(at) ==
    CASE at = "next" -> 0
      [] at = "interrupted" -> 1
      [] at = "audio" -> 2
      [] at = "turn_complete" -> 3

\* the send the loop reaches next for event e, having passed the await `at`;
\* "next" when it reaches the end of the loop body
NextAwait(e, at) ==
    IF Rank(at) < 1 /\ e.interrupted THEN "interrupted"
    ELSE IF Rank(at) < 2 /\ SendsAudio(e) THEN "audio"
    ELSE IF Rank(at) < 3 /\ e.turn_complete THEN "turn_complete"
    ELSE "next"

\* `if event.actions and (event.actions.state_delta or event.actions.artifact_delta)`
HasDelta(e) == NonEmpty(e.state_delta) \/ e.artifact_delta

\* a fault: the event is appended and `session` is not reloaded
apply_without_reload(c, by, delta) ==
    /\ session_store' = append_event_store(session_store, session_id[c], delta)
    /\ session' = session
    /\ applied' = [applied EXCEPT ![c] = Append(@, [by |-> by, delta |-> delta])]

\* append_event(session, event) and the reload of `session`, by either loop
apply_delta(c, by, delta) ==
    /\ session_store' = append_event_store(session_store, session_id[c], delta)
    /\ session' = [session EXCEPT ![c] = get_session(session_store', session_id[c])]
    /\ applied' = [applied EXCEPT ![c] = Append(@, [by |-> by, delta |-> delta])]

\* the loop body from the await `at` on, up to its next await.  With `session`
\* None, append_event raises (AttributeError) and the loop ends.
adk_continue(c, e, at) ==
    LET to == NextAwait(e, at)
    IN  IF to # "next"
        THEN /\ adk_at' = [adk_at EXCEPT ![c] = [at |-> to, event |-> e]]
             /\ UNCHANGED << session_store, session, applied, adk_run_task >>
        ELSE /\ adk_at' = [adk_at EXCEPT ![c] = [at |-> "next", event |-> NoEvent]]
             /\ IF ~ HasDelta(e)
                THEN UNCHANGED << session_store, session, applied, adk_run_task >>
                ELSE IF ~ session[c].exists
                THEN /\ adk_run_task' = [adk_run_task EXCEPT ![c].st = "done"]
                     /\ UNCHANGED << session_store, session, applied >>
                ELSE /\ apply_delta(c, "adk_to_client", e.state_delta)
                     /\ UNCHANGED adk_run_task

Active(aio_task) == aio_task.st = "running" /\ ~ aio_task.cancel

Inputs(c) == Len(events_in[c]) + Len(msgs_in[c])

\* `async for event in live_events` yields an event
adk_event(c, e) ==
    /\ Active(adk_run_task[c])
    /\ adk_at[c].at = "next"
    /\ Inputs(c) < MaxInputs
    /\ events_in' = [events_in EXCEPT ![c] = Append(@, e)]
    /\ adk_continue(c, e, "next")
    /\ UNCHANGED << endpoint, session_id, live_request_queue, client_listener_task,
                    ws_out, ws_close, msgs_in >>
    /\ UNCHANGED << runner, taskVars, hostVars >>

\* an `await websocket.send_json(...)` returns
adk_sent(c) ==
    /\ Active(adk_run_task[c])
    /\ adk_at[c].at # "next"
    /\ ws_out' = [ws_out EXCEPT ![c] = Append(@, MessageAt(adk_at[c].at, adk_at[c].event))]
    /\ adk_continue(c, adk_at[c].event, adk_at[c].at)
    /\ UNCHANGED << endpoint, session_id, live_request_queue, client_listener_task,
                    ws_close, events_in, msgs_in >>
    /\ UNCHANGED << runner, taskVars, hostVars >>

\* a fault: the delta of the event is applied although its send has failed
adk_send_fails_late(c) ==
    /\ Active(adk_run_task[c])
    /\ adk_at[c].at # "next"
    /\ adk_run_task' = [adk_run_task EXCEPT ![c].st = "done"]
    /\ apply_delta(c, "adk_to_client", adk_at[c].event.state_delta)
    /\ UNCHANGED << endpoint, session_id, live_request_queue,
                    client_listener_task, adk_at, ws_out, ws_close, events_in,
                    msgs_in >>
    /\ UNCHANGED << runner, taskVars, hostVars >>

\* an `await websocket.send_json(...)` raises (WebSocketDisconnect or another
\* exception): caught at the loop boundary, the task finishes
adk_send_fails(c) ==
    /\ Active(adk_run_task[c])
    /\ adk_at[c].at # "next"
    /\ adk_run_task' = [adk_run_task EXCEPT ![c].st = "done"]
    /\ UNCHANGED << session_store, endpoint, session_id, session, live_request_queue,
                    client_listener_task, adk_at, ws_out, ws_close, events_in,
                    msgs_in, applied >>
    /\ UNCHANGED << runner, taskVars, hostVars >>

\* live_events is exhausted, or raises: the task finishes
adk_source_ends(c) ==
    /\ Active(adk_run_task[c])
    /\ adk_at[c].at = "next"
    /\ adk_run_task' = [adk_run_task EXCEPT ![c].st = "done"]
    /\ UNCHANGED << session_store, endpoint, session_id, session, live_request_queue,
                    client_listener_task, adk_at, ws_out, ws_close, events_in,
                    msgs_in, applied >>
    /\ UNCHANGED << runner, taskVars, hostVars >>

\* the requested cancellation is delivered at the await the loop stands at:
\* `except asyncio.CancelledError`, the task finishes
adk_cancelled(c) ==
    /\ adk_run_task[c].st = "running"
    /\ adk_run_task[c].cancel
    /\ adk_run_task' = [adk_run_task EXCEPT ![c].st = "done"]
    /\ UNCHANGED << session_store, endpoint, session_id, session, live_request_queue,
                    client_listener_task, adk_at, ws_out, ws_close, events_in,
                    msgs_in, applied >>
    /\ UNCHANGED << runner, taskVars, hostVars >>

(***************************************************************************)
(* client_to_adk: the downstream relay loop.  Its only await is            *)
(* websocket.receive_json(); a message is dispatched without suspension.   *)
(***************************************************************************)
\* a payload b64decode rejects raises binascii.Error out of the dispatch
BadAudio(m) == m.type = "audio" /\ m.data # << >> /\ b64decode(m.data) = B64Error

\* a fault: the audio branch forwards whatever it decoded, empty or not
ForwardedUnchecked(m) ==
    IF m.type = "audio" /\ ~ BadAudio(m)
    THEN << Blob(b64decode(m.data)) >>
    ELSE IF m.type = "text" /\ m.data # << >>
    THEN << Content(m.data) >>
    ELSE << >>

\* a fault: the text branch forwards its data, empty or not
ForwardedAnyText(m) ==
    IF m.type = "audio" /\ m.data # << >> /\ ~ BadAudio(m) /\ b64decode(m.data) # << >>
    THEN << Blob(b64decode(m.data)) >>
    ELSE IF m.type = "text"
    THEN << Content(m.data) >>
    ELSE << >>

\* a fault: end_of_turn is passed on as an empty content
ForwardedEndOfTurn(m) ==
    IF m.type = "audio" /\ m.data # << >> /\ ~ BadAudio(m) /\ b64decode(m.data) # << >>
    THEN << Blob(b64decode(m.data)) >>
    ELSE IF m.type = "text" /\ m.data # << >>
    THEN << Content(m.data) >>
    ELSE IF m.type = "end_of_turn"
    THEN << Content(<< >>) >>
    ELSE << >>

\* what a message puts on the command sink: nothing, or one item
Forwarded(m) ==
    IF m.type = "audio" /\ m.data # << >> /\ ~ BadAudio(m) /\ b64decode(m.data) # << >>
    THEN << Blob(b64decode(m.data)) >>
    ELSE IF m.type = "text" /\ m.data # << >>
    THEN << Content(m.data) >>
    ELSE << >>

\* a fault: the downstream loop ends on an error and leaves the queue open
listener_fails_open(c) ==
    /\ live_request_queue' = live_request_queue
    /\ client_listener_task' = [client_listener_task EXCEPT ![c].st = "done"]

\* `except Exception` / `except WebSocketDisconnect` of client_to_adk: the queue
\* is closed and the task finishes
listener_fails(c) ==
    /\ live_request_queue' = [live_request_queue EXCEPT ![c] = close_queue(@)]
    /\ client_listener_task' = [client_listener_task EXCEPT ![c].st = "done"]

\* websocket.receive_json() returns message m, and m is dispatched
client_message(c, m) ==
    /\ Active(client_listener_task[c])
    /\ Inputs(c) < MaxInputs
    /\ msgs_in' = [msgs_in EXCEPT ![c] = Append(@, m)]
    /\ IF BadAudio(m)
       THEN /\ listener_fails(c)
            /\ UNCHANGED << session_store, session, applied >>
       ELSE IF m.type = "toggle_mock"
       THEN IF ~ session[c].exists
            THEN /\ listener_fails(c)
                 /\ UNCHANGED << session_store, session, applied >>
            ELSE /\ apply_delta(c, "client_to_adk", DeltaOf("mock_a2a_calls", m.value))
                 /\ IF session'[c].exists
                    THEN UNCHANGED << live_request_queue, client_listener_task >>
                    ELSE listener_fails(c)
       ELSE /\ live_request_queue' =
                  [live_request_queue EXCEPT
                      ![c].items = IF Forwarded(m) = << >> THEN @
                                   ELSE Put(@, Forwarded(m)[1])]
            /\ UNCHANGED << session_store, session, applied, client_listener_task >>
    /\ UNCHANGED << endpoint, session_id, adk_run_task, adk_at, ws_out, ws_close,
                    events_in >>
    /\ UNCHANGED << runner, taskVars, hostVars >>

\* websocket.receive_json() raises: the client disconnected, or the frame was
\* not JSON
client_disconnect(c) ==
    /\ Active(client_listener_task[c])
    /\ listener_fails(c)
    /\ UNCHANGED << session_store, endpoint, session_id, session, adk_run_task,
                    adk_at, ws_out, ws_close, events_in, msgs_in, applied >>
    /\ UNCHANGED << runner, taskVars, hostVars >>

\* `except asyncio.CancelledError`: the task finishes, the queue is left alone
client_cancelled(c) ==
    /\ client_listener_task[c].st = "running"
    /\ client_listener_task[c].cancel
    /\ client_listener_task' = [client_listener_task EXCEPT ![c].st = "done"]
    /\ UNCHANGED << session_store, endpoint, session_id, session, live_request_queue,
                    adk_run_task, adk_at, ws_out, ws_close, events_in, msgs_in,
                    applied >>
    /\ UNCHANGED << runner, taskVars, hostVars >>

(***************************************************************************)
(* The Specialist Task Handler: on_send_task of StockInfoTaskManager       *)
(* (manager "stock", the worker is call_mcp_get_stock_price), of           *)
(* BlockchainInfoTaskManager (manager "blockchain", the worker is an ADK   *)
(* agent run over an MCP connection) and of the ADK-mode                   *)
(* StockInfoTaskManager of examples/stock_lookup_custom_a2a (manager       *)
(* "stock_adk").  Requests are handled concurrently on one event loop and  *)
(* interleave at their awaits.                                             *)
(***************************************************************************)
\* events one agent run yields
MaxRunEvents == 2

Managers == {"stock", "blockchain", "stock_adk"}
Reqs == {"r1", "r2"}
TaskIds == {"t1", "t2"}

Terminal == {"COMPLETED", "FAILED"}

\* message parts: a TextPart with its text, or a DataPart
Text(chars) == [kind |-> "text", text |-> chars]
Data == [kind |-> "data", text |-> << >>]

PartLists ==
    { << >>,
      << Data, Text(<< " " >>) >>,
      << Text(<< >>), Text(<< "M" >>) >>,
      << Text(<< " " >>), Text(<< "M" >>) >>,
      << Data, Text(<< " ", "M", " " >>) >> }

\* str.strip() on blanks
RECURSIVE LStrip(_)
LStrip(chars) ==
    IF chars # << >> /\ Head(chars) = " " THEN LStrip(Tail(chars)) ELSE chars

RECURSIVE RStrip(_)
RStrip(chars) ==
    IF chars # << >> /\ chars[Len(chars)] = " "
    THEN RStrip(SubSeq(chars, 1, Len(chars) - 1))
    ELSE chars

Strip(chars) == RStrip(LStrip(chars))

\* a fault: a query is found whatever the parts are
DefaultQuery(parts) == << "M" >>

\* a fault: the loop passes over text parts that hold blanks only
ExtractAnyQuery(parts) ==
    LET usable == {i \in DOMAIN parts :
                      parts[i].kind = "text" /\ Strip(parts[i].text) # << >>}
    IN  IF usable = {} THEN << >>
        ELSE Strip(parts[CHOOSE i \in usable : \A j \in usable : i <= j].text)

\* the loop over input_message.parts: the first TextPart whose text is not
\* empty gives the query, stripped; "" when there is none
RECURSIVE ExtractQuery(_)
ExtractQuery(parts) ==
    IF parts = << >> THEN << >>
    ELSE IF Head(parts).kind = "text" /\ Head(parts).text # << >>
    THEN Strip(Head(parts).text)
    ELSE ExtractQuery(Tail(parts))

\* dicts are functions from keys to values
ErrDict(msg) == [error |-> msg]
HasKey(dict, key) == key \in DOMAIN dict

StockOk == [price |-> 100, symbol |-> "ABC"]
NoPrice == [symbol |-> "ABC"]
ChainOk == [balance |-> 5]
ToolError == ErrDict("tool failed")

Artifact(name, data) == [name |-> name, data |-> data]
ErrorArtifact(msg) == Artifact("error_details", ErrDict(msg))

MissingInput(mgr) ==
    CASE mgr = "stock" -> "Error: Ticker symbol not provided in the request."
      [] mgr = "blockchain" -> "No query provided."
      [] mgr = "stock_adk" -> "Ticker symbol not provided."

\* step 4 of on_send_task: the worker's dict decides the final state
Succeeded(mgr, outcome) ==
    IF mgr = "blockchain"
    THEN ~ HasKey(outcome, "error")
    ELSE ~ HasKey(outcome, "error") /\ HasKey(outcome, "price")

UnknownError(mgr) ==
    CASE mgr = "stock" -> "Unknown error from MCP tool/interaction."
      [] mgr = "blockchain" -> "Unknown error from ADK Agent."
      [] mgr = "stock_adk" -> "Unknown error from ADK Agent execution."

ResultName(mgr) == IF mgr = "blockchain" THEN "blockchain_data" ELSE "stock_price_data"

\* adk_result_dict before the agent has run
DefaultResult(mgr) ==
    IF mgr = "blockchain" THEN ErrDict("ADK agent execution failed.")
    ELSE ErrDict("ADK agent execution failed to produce a result.")

\* a fault: every outcome is taken for a success
AlwaysCompleted(mgr, outcome) ==
    [state |-> "COMPLETED", artifacts |-> << Artifact(ResultName(mgr), outcome) >>]

\* a fault: a failure is reported without the worker's own message
FinalizedGeneric(mgr, outcome) ==
    IF Succeeded(mgr, outcome)
    THEN [state |-> "COMPLETED", artifacts |-> << Artifact(ResultName(mgr), outcome) >>]
    ELSE [state |-> "FAILED", artifacts |-> << ErrorArtifact(UnknownError(mgr)) >>]

Finalized(mgr, outcome) ==
    IF Succeeded(mgr, outcome)
    THEN [state |-> "COMPLETED", artifacts |-> << Artifact(ResultName(mgr), outcome) >>]
    ELSE [state |-> "FAILED",
          artifacts |-> << ErrorArtifact(IF HasKey(outcome, "error") THEN outcome.error
                                         ELSE UnknownError(mgr)) >>]

(***************************************************************************)
(* call_mcp_get_stock_price: one run of the MCP client, given by the point *)
(* where it stops and, when the tool answers, by the answer.               *)
(***************************************************************************)
ToolResponses ==
    { [isError |-> TRUE,  content |-> "not_json",  dict |-> ToolError],
      [isError |-> FALSE, content |-> "none",      dict |-> ToolError],
      [isError |-> FALSE, content |-> "not_text",  dict |-> ToolError],
      [isError |-> FALSE, content |-> "not_json",  dict |-> ToolError],
      [isError |-> FALSE, content |-> "json_list", dict |-> ToolError],
      [isError |-> FALSE, content |-> "json_dict", dict |-> ToolError],
      [isError |-> FALSE, content |-> "json_dict", dict |-> NoPrice],
      [isError |-> FALSE, content |-> "json_dict", dict |-> StockOk] }

McpStops == {"not_absolute", "not_found", "stdio_client", "ClientSession",
             "initialize", "timeout", "call_tool"}

McpRuns ==
    [at : McpStops, response : {CHOOSE resp \in ToolResponses : resp.isError}]
        \cup [at : {"response"}, response : ToolResponses]

\* what the run has entered on its AsyncExitStack when it stops
McpOpens(run) ==
    CASE run.at \in {"not_absolute", "not_found", "stdio_client"} -> {}
      [] run.at = "ClientSession" -> {"stdio_client"}
      [] OTHER -> {"stdio_client", "ClientSession"}

\* a fault: a run that fails hands back a dict without an error key
McpResultSilent(run) ==
    IF run.at = "response" /\ ~ run.response.isError /\ run.response.content = "json_dict"
    THEN run.response.dict
    ELSE NoPrice

\* the dict the run returns
McpResult(run) ==
    CASE run.at = "not_absolute" ->
             ErrDict("Internal configuration error: MCP server path is not absolute.")
      [] run.at = "not_found" ->
             ErrDict("Internal configuration error: MCP server script not found.")
      [] run.at = "timeout" -> ErrDict("Timeout communicating with MCP server")
      [] run.at \in {"stdio_client", "ClientSession", "initialize", "call_tool"} ->
             ErrDict("Failed to communicate with MCP server")
      [] run.response.isError -> ErrDict("MCP Tool Error")
      [] run.response.content = "none" ->
             ErrDict("Missing content in successful MCP tool response.")
      [] run.response.content = "not_text" ->
             ErrDict("Unexpected content type received from MCP tool")
      [] run.response.content = "not_json" -> ErrDict("MCP tool returned non-JSON text.")
      [] run.response.content = "json_list" ->
             ErrDict("MCP tool returned invalid JSON structure.")
      [] OTHER -> run.response.dict

(***************************************************************************)
(* The ADK run of the two agent handlers: each event carries the list of   *)
(* its function responses.  For the blockchain handler a response is a     *)
(* dict or something else; for the ADK-mode stock handler it has the name  *)
(* of the tool and wraps the tool's result under "result".                 *)
(***************************************************************************)
Resp(dict) == [isdict |-> TRUE, dict |-> dict]
NotADict == [isdict |-> FALSE, dict |-> ToolError]

ToolResp(name, wrapper, tool) == [name |-> name, wrapper |-> wrapper, tool |-> tool]
Tool(isError, content, dict) == [isError |-> isError, content |-> content, dict |-> dict]

RunEvents(mgr) ==
    IF mgr = "blockchain"
    THEN { << >>,
           << Resp(ChainOk) >>,
           << Resp(ToolError), Resp(ChainOk) >>,
           << NotADict >> }
    ELSE { << >>,
           << ToolResp("other_tool", "result", Tool(FALSE, "json_dict", StockOk)),
              ToolResp("get_current_stock_price", "result", Tool(FALSE, "json_dict", StockOk)) >>,
           << ToolResp("get_current_stock_price", "result", Tool(FALSE, "json_dict", NoPrice)) >>,
           << ToolResp("get_current_stock_price", "result", Tool(TRUE, "json_dict", ToolError)) >>,
           << ToolResp("get_current_stock_price", "no_result", Tool(FALSE, "none", ToolError)) >> }

AllRunEvents == RunEvents("blockchain") \cup RunEvents("stock_adk")

\* blockchain: the first function response of an event that has any replaces
\* the result
Captured(outcome, responses) ==
    IF responses = << >> THEN outcome
    ELSE IF Head(responses).isdict THEN Head(responses).dict
    ELSE ErrDict("Unexpected tool response format.")

\* stock_adk: what one response of get_current_stock_price is parsed to
Parsed(resp) ==
    CASE resp.wrapper = "not_dict" ->
             ErrDict("Invalid outer tool response format from ADK Agent run.")
      [] resp.wrapper = "no_result" ->
             ErrDict("Missing 'result' in outer tool response format.")
      [] resp.tool.isError /\ resp.tool.content = "none" ->
             ErrDict("MCP Tool reported error with no content.")
      [] resp.tool.isError /\ resp.tool.content = "json_dict"
            /\ HasKey(resp.tool.dict, "error") -> resp.tool.dict
      [] resp.tool.isError -> ErrDict("MCP Tool Error")
      [] resp.tool.content = "none" ->
             ErrDict("Missing content in successful MCP response.")
      [] resp.tool.content = "not_text" ->
             ErrDict("Unexpected content type in successful MCP response.")
      [] resp.tool.content = "not_json" ->
             ErrDict("Non-JSON success response text from MCP tool.")
      [] resp.tool.content = "json_dict" /\ HasKey(resp.tool.dict, "price")
            /\ HasKey(resp.tool.dict, "symbol") -> resp.tool.dict
      [] OTHER -> ErrDict("Invalid data structure from MCP tool (missing keys).")

\* stock_adk: the first response of an event that carries the tool's name
\* replaces the result
RECURSIVE CapturedByName(_, _)
CapturedByName(outcome, responses) ==
    IF responses = << >> THEN outcome
    ELSE IF Head(responses).name = "get_current_stock_price"
    THEN Parsed(Head(responses))
    ELSE CapturedByName(outcome, Tail(responses))

(***************************************************************************)
(* The task store of InMemoryTaskManager.                                  *)
(***************************************************************************)
NoTaskYet == [exists |-> FALSE, state |-> "SUBMITTED", artifacts |-> << >>]
None == [some |-> FALSE, list |-> << >>]
Some(list) == [some |-> TRUE, list |-> list]

upsert_task(store, t) ==
    IF store[t].exists THEN store
    ELSE [store EXCEPT ![t] = [exists |-> TRUE, state |-> "SUBMITTED", artifacts |-> << >>]]

update_store(store, t, state, artifacts) ==
    [store EXCEPT ![t].state = state,
                  ![t].artifacts = IF artifacts.some THEN artifacts.list ELSE @]

(***************************************************************************)
(* Worker resources: what an invocation has entered on an AsyncExitStack   *)
(* and how often each of them has been closed.                             *)
(***************************************************************************)
Resources == {"stdio_client", "ClientSession", "mcp_toolset"}
NoResources == [open |-> {}, closed |-> [x \in Resources |-> 0]]

enter(res, entered) == [res EXCEPT !.open = @ \cup entered]

\* an exit that closes nothing: the fault the teardown properties rule out
leak(res) == res

\* leaving `async with AsyncExitStack()`, or `await exit_stack.aclose()`
aclose(res) ==
    [open |-> {},
     closed |-> [x \in Resources |-> res.closed[x] + IF x \in res.open THEN 1 ELSE 0]]

(***************************************************************************)
(* on_send_task, from await to await.                                      *)
(***************************************************************************)
NoRequest == [id |-> "none", task_id |-> "t1", parts |-> << >>]
NoLocalTask == [state |-> "none", artifacts |-> << >>]
NoResult == ErrDict("none")
NoResponse == [id |-> "none", kind |-> "none", task |-> NoLocalTask]

RequestId(r) == IF r = "r1" THEN "q1" ELSE "q2"

\* a fault: the response is not keyed by the id of the request
UnkeyedResponse(id, returned) == [id |-> "none", kind |-> "result", task |-> returned]

SendTaskResponse(id, returned) == [id |-> id, kind |-> "result", task |-> returned]
InternalError(id) == [id |-> id, kind |-> "error", task |-> NoLocalTask]

TaskIdle ==
    /\ tasks = [t \in TaskIds |-> NoTaskYet]
    /\ tasks_log = [t \in TaskIds |-> << >>]
    /\ pc = [r \in Reqs |-> "idle"]
    /\ request = [r \in Reqs |-> NoRequest]
    /\ task = [r \in Reqs |-> NoLocalTask]
    /\ user_query = [r \in Reqs |-> << >>]
    /\ result = [r \in Reqs |-> NoResult]
    /\ exit_stack = [r \in Reqs |-> FALSE]
    /\ resources = [r \in Reqs |-> NoResources]
    /\ run_events = [r \in Reqs |-> 0]
    /\ worker_calls = [r \in Reqs |-> 0]
    /\ worker_raised = [r \in Reqs |-> FALSE]
    /\ response = [r \in Reqs |-> NoResponse]

\* a tasks/send request arrives; the handler runs up to `await upsert_task`
on_send_task(r, t, parts) ==
    /\ pc[r] = "idle"
    /\ request' = [request EXCEPT ![r] = [id |-> RequestId(r), task_id |-> t, parts |-> parts]]
    /\ pc' = [pc EXCEPT ![r] = "upsert_task"]
    /\ UNCHANGED << manager, tasks, tasks_log, task, result, exit_stack, resources,
                    run_events, worker_calls, worker_raised, response >>
    /\ UNCHANGED << user_query, bridgeVars, hostVars >>

\* a fault: the handler leaves the task in the state the store gave it
task_upserted_unmarked(r) ==
    LET t == request[r].task_id IN
    /\ pc[r] = "upsert_task"
    /\ tasks' = upsert_task(tasks, t)
    /\ tasks_log' = IF tasks[t].exists THEN tasks_log
                    ELSE [tasks_log EXCEPT ![t] = Append(@, "SUBMITTED")]
    /\ task' = [task EXCEPT ![r] = [state |-> tasks'[t].state, artifacts |-> tasks'[t].artifacts]]
    /\ pc' = [pc EXCEPT ![r] = "update_working"]
    /\ UNCHANGED << manager, request, result, exit_stack, resources, run_events,
                    worker_calls, worker_raised, response >>
    /\ UNCHANGED << user_query, bridgeVars, hostVars >>

\* upsert_task returns; the handler sets WORKING on its task and awaits the
\* store update
task_upserted(r) ==
    LET t == request[r].task_id IN
    /\ pc[r] = "upsert_task"
    /\ tasks' = upsert_task(tasks, t)
    /\ tasks_log' = IF tasks[t].exists THEN tasks_log
                    ELSE [tasks_log EXCEPT ![t] = Append(@, "SUBMITTED")]
    /\ task' = [task EXCEPT ![r] = [state |-> "WORKING", artifacts |-> tasks'[t].artifacts]]
    /\ pc' = [pc EXCEPT ![r] = "update_working"]
    /\ UNCHANGED << manager, request, result, exit_stack, resources, run_events,
                    worker_calls, worker_raised, response >>
    /\ UNCHANGED << user_query, bridgeVars, hostVars >>

\* WORKING is stored; the handler extracts the query and either fails the
\* task for missing input or starts its worker
working_stored(r) ==
    LET t == request[r].task_id IN
    /\ pc[r] = "update_working"
    /\ tasks' = update_store(tasks, t, task[r].state, None)
    /\ tasks_log' = [tasks_log EXCEPT ![t] = Append(@, task[r].state)]
    /\ user_query' = [user_query EXCEPT ![r] = ExtractQuery(request[r].parts)]
    /\ IF user_query'[r] = << >>
       THEN /\ task' = [task EXCEPT ![r] =
                          [state |-> "FAILED",
                           artifacts |-> << ErrorArtifact(MissingInput(manager)) >>]]
            /\ pc' = [pc EXCEPT ![r] = "update_no_input"]
            /\ UNCHANGED << result, worker_calls >>
       ELSE /\ worker_calls' = [worker_calls EXCEPT ![r] = @ + 1]
            /\ IF manager = "stock"
               THEN /\ pc' = [pc EXCEPT ![r] = "call_mcp"]
                    /\ UNCHANGED result
               ELSE /\ pc' = [pc EXCEPT ![r] = "create_agent"]
                    /\ result' = [result EXCEPT ![r] = DefaultResult(manager)]
            /\ UNCHANGED task
    /\ UNCHANGED << manager, request, exit_stack, resources, run_events,
                    worker_raised, response >>
    /\ UNCHANGED << bridgeVars, hostVars >>

\* the FAILED state for missing input is stored; the handler returns
no_input_stored(r) ==
    LET t == request[r].task_id IN
    /\ pc[r] = "update_no_input"
    /\ tasks' = update_store(tasks, t, task[r].state, Some(task[r].artifacts))
    /\ tasks_log' = [tasks_log EXCEPT ![t] = Append(@, task[r].state)]
    /\ response' = [response EXCEPT ![r] = SendTaskResponse(request[r].id, task[r])]
    /\ pc' = [pc EXCEPT ![r] = "returned"]
    /\ UNCHANGED << manager, request, task, result, exit_stack, resources, run_events,
                    worker_calls, worker_raised >>
    /\ UNCHANGED << user_query, bridgeVars, hostVars >>

\* manager "stock": call_mcp_get_stock_price starts.  A missing script makes
\* it return before it opens anything (the path is absolute, __init__ has
\* checked that); otherwise it enters its contexts up to the point where the
\* run stops and holds the dict it is going to return.
mcp_enters(r, run) ==
    /\ pc[r] = "call_mcp"
    /\ run.at # "not_absolute"
    /\ result' = [result EXCEPT ![r] = McpResult(run)]
    /\ IF run.at = "not_found"
       THEN /\ task' = [task EXCEPT ![r] = Finalized(manager, McpResult(run))]
            /\ pc' = [pc EXCEPT ![r] = "update_final"]
            /\ UNCHANGED resources
       ELSE /\ resources' = [resources EXCEPT ![r] = enter(@, McpOpens(run))]
            /\ pc' = [pc EXCEPT ![r] = "mcp_exit"]
            /\ UNCHANGED task
    /\ UNCHANGED << manager, tasks, tasks_log, request, exit_stack, run_events,
                    worker_calls, worker_raised, response >>
    /\ UNCHANGED << user_query, bridgeVars, hostVars >>

\* the `async with AsyncExitStack()` block is left: everything entered is
\* closed, and the call returns its dict, or it raises into on_send_task
\* (`except Exception` there).  Inside the block every exception is turned
\* into a dict, so the call raises only while the stack unwinds.
mcp_exits(r, raises) ==
    /\ pc[r] = "mcp_exit"
    /\ raises => resources[r].open # {}
    /\ resources' = [resources EXCEPT ![r] = aclose(@)]
    /\ IF raises
       THEN /\ worker_raised' = [worker_raised EXCEPT ![r] = TRUE]
            /\ task' = [task EXCEPT ![r] =
                          [state |-> "FAILED",
                           artifacts |-> << ErrorArtifact("Internal server error processing task.") >>]]
            /\ pc' = [pc EXCEPT ![r] = "update_error"]
       ELSE /\ task' = [task EXCEPT ![r] = Finalized(manager, result[r])]
            /\ pc' = [pc EXCEPT ![r] = "update_final"]
            /\ UNCHANGED worker_raised
    /\ UNCHANGED << manager, tasks, tasks_log, request, result, exit_stack, run_events,
                    worker_calls, response >>
    /\ UNCHANGED << user_query, bridgeVars, hostVars >>

\* the agent handlers: create_agent_with_mcp_tools returns the agent and
\* the stack that owns the MCP connection, or raises with nothing to hand
\* over (`except Exception`, then `finally` with exit_stack None)
agent_created(r, ok) ==
    /\ pc[r] = "create_agent"
    /\ IF ok
       THEN /\ exit_stack' = [exit_stack EXCEPT ![r] = TRUE]
            /\ resources' = [resources EXCEPT ![r] = enter(@, {"mcp_toolset"})]
            /\ pc' = [pc EXCEPT ![r] = "run_async"]
            /\ UNCHANGED << result, task, worker_raised >>
       ELSE /\ worker_raised' = [worker_raised EXCEPT ![r] = TRUE]
            /\ result' = [result EXCEPT ![r] = ErrDict("Failed to execute ADK agent")]
            /\ task' = [task EXCEPT ![r] = Finalized(manager, result'[r])]
            /\ pc' = [pc EXCEPT ![r] = "update_final"]
            /\ UNCHANGED << exit_stack, resources >>
    /\ UNCHANGED << manager, tasks, tasks_log, request, run_events, worker_calls, response >>
    /\ UNCHANGED << user_query, bridgeVars, hostVars >>

\* the agent run yields an event
run_event(r, responses) ==
    /\ pc[r] = "run_async"
    /\ responses \in RunEvents(manager)
    /\ run_events[r] < MaxRunEvents
    /\ run_events' = [run_events EXCEPT ![r] = @ + 1]
    /\ result' = [result EXCEPT ![r] = IF manager = "blockchain"
                                          THEN Captured(@, responses)
                                          ELSE CapturedByName(@, responses)]
    /\ UNCHANGED << manager, tasks, tasks_log, pc, request, task, exit_stack, resources,
                    worker_calls, worker_raised, response >>
    /\ UNCHANGED << user_query, bridgeVars, hostVars >>

\* the agent run ends, or raises (`except Exception`); either way the
\* `finally` block awaits exit_stack.aclose()
run_ends(r, raises) ==
    /\ pc[r] = "run_async"
    /\ IF raises
       THEN /\ worker_raised' = [worker_raised EXCEPT ![r] = TRUE]
            /\ result' = [result EXCEPT ![r] = ErrDict("Failed to execute ADK agent")]
       ELSE UNCHANGED << worker_raised, result >>
    /\ pc' = [pc EXCEPT ![r] = "aclose"]
    /\ UNCHANGED << manager, tasks, tasks_log, request, task, exit_stack, resources,
                    run_events, worker_calls, response >>
    /\ UNCHANGED << user_query, bridgeVars, hostVars >>

\* exit_stack.aclose() returns; the handler classifies the result
stack_closed(r) ==
    /\ pc[r] = "aclose"
    /\ resources' = [resources EXCEPT ![r] = IF exit_stack[r] THEN aclose(@) ELSE @]
    /\ task' = [task EXCEPT ![r] = Finalized(manager, result[r])]
    /\ pc' = [pc EXCEPT ![r] = "update_final"]
    /\ UNCHANGED << manager, tasks, tasks_log, request, result, exit_stack, run_events,
                    worker_calls, worker_raised, response >>
    /\ UNCHANGED << user_query, bridgeVars, hostVars >>

\* the final state is stored; the handler returns the task
final_stored(r) ==
    LET t == request[r].task_id IN
    /\ pc[r] = "update_final"
    /\ tasks' = update_store(tasks, t, task[r].state, Some(task[r].artifacts))
    /\ tasks_log' = [tasks_log EXCEPT ![t] = Append(@, task[r].state)]
    /\ response' = [response EXCEPT ![r] = SendTaskResponse(request[r].id, task[r])]
    /\ pc' = [pc EXCEPT ![r] = "returned"]
    /\ UNCHANGED << manager, request, task, result, exit_stack, resources, run_events,
                    worker_calls, worker_raised >>
    /\ UNCHANGED << user_query, bridgeVars, hostVars >>

\* a fault: the internal error is returned with the store left as it was
error_unstored(r) ==
    /\ pc[r] = "update_error"
    /\ response' = [response EXCEPT ![r] = InternalError(request[r].id)]
    /\ pc' = [pc EXCEPT ![r] = "returned"]
    /\ UNCHANGED << manager, tasks, tasks_log, request, task, result, exit_stack,
                    resources, run_events, worker_calls, worker_raised >>
    /\ UNCHANGED << user_query, bridgeVars, hostVars >>

\* `except Exception` of the stock handler: FAILED is stored and a JSON-RPC
\* internal error is returned
error_stored(r) ==
    LET t == request[r].task_id IN
    /\ pc[r] = "update_error"
    /\ tasks' = update_store(tasks, t, task[r].state, Some(task[r].artifacts))
    /\ tasks_log' = [tasks_log EXCEPT ![t] = Append(@, task[r].state)]
    /\ response' = [response EXCEPT ![r] = InternalError(request[r].id)]
    /\ pc' = [pc EXCEPT ![r] = "returned"]
    /\ UNCHANGED << manager, request, task, result, exit_stack, resources, run_events,
                    worker_calls, worker_raised >>
    /\ UNCHANGED << user_query, bridgeVars, hostVars >>

UnsupportedOperationError(id) == [id |-> id, kind |-> "unsupported", task |-> NoLocalTask]

\* a fault: the subscription is taken for a task to run and is registered
subscribe_upserts(r, t, parts) ==
    /\ pc[r] = "idle"
    /\ request' = [request EXCEPT ![r] = [id |-> RequestId(r), task_id |-> t, parts |-> parts]]
    /\ tasks' = upsert_task(tasks, t)
    /\ response' = [response EXCEPT ![r] = UnsupportedOperationError(RequestId(r))]
    /\ pc' = [pc EXCEPT ![r] = "rejected"]
    /\ UNCHANGED << manager, tasks_log, task, result, exit_stack, resources,
                    run_events, worker_calls, worker_raised >>
    /\ UNCHANGED << user_query, bridgeVars, hostVars >>

\* a tasks/sendSubscribe request arrives: on_send_task_subscribe has no
\* await and returns the unsupported-operation error under the request's id
on_send_task_subscribe(r, t, parts) ==
    /\ pc[r] = "idle"
    /\ request' = [request EXCEPT ![r] = [id |-> RequestId(r), task_id |-> t, parts |-> parts]]
    /\ response' = [response EXCEPT ![r] = UnsupportedOperationError(RequestId(r))]
    /\ pc' = [pc EXCEPT ![r] = "rejected"]
    /\ UNCHANGED << manager, tasks, tasks_log, task, result, exit_stack, resources,
                    run_events, worker_calls, worker_raised >>
    /\ UNCHANGED << user_query, bridgeVars, hostVars >>

(***************************************************************************)
(* The host agent's tools: initialize_specialist_agents_discovery fills    *)
(* the registry DISCOVERED_SPECIALIST_AGENTS at startup, and the           *)
(* delegation tools delegate_task_to_specialist (by registry name) and     *)
(* call_specialist_stock_agent (one configured specialist) send a task     *)
(* and map the answer to a result dict.                                    *)
(***************************************************************************)
\* configured base URLs
MaxSources == 2
\* tool calls of one run
MaxCalls == 2

AgentNames == {"StockInfoAgent", "BlockchainInfoAgent"}

AgentCard(name, url) == [name |-> name, url |-> url]

\* what fetching one agent card comes to: an HTTP error status, a transport
\* error, a body that is not JSON, JSON that is not an object, an object
\* AgentCard rejects, or a card (its name or url may be empty)
Fetches ==
    [kind : {"http_status_error", "request_error", "not_json", "not_an_object",
             "invalid_card"},
     card : {AgentCard("", "")}]
    \cup [kind : {"card"},
          card : {AgentCard(n, u) : n \in AgentNames \cup {""},
                                    u \in {"", "http://a/a2a", "http://b/a2a"}}]

NoAgents == [n \in {} |-> AgentCard("", "")]

\* a fault: the card is cached whatever it holds
CachedUnchecked(agents, card) ==
    [n \in DOMAIN agents \cup {card.name} |-> IF n = card.name THEN card ELSE agents[n]]

\* the two checks and DISCOVERED_SPECIALIST_AGENTS[agent_card.name] = agent_card
Cached(agents, card) ==
    IF card.name = "" \/ card.url = "" THEN agents
    ELSE [n \in DOMAIN agents \cup {card.name} |-> IF n = card.name THEN card ELSE agents[n]]

\* the exceptions the loop body catches: httpx.HTTPStatusError, and
\* httpx.RequestError, json.JSONDecodeError, ValueError (pydantic's
\* ValidationError is one).  AgentCard(**card_data) on JSON that is not an
\* object raises TypeError, which is none of them.
Caught(kind) == kind \in {"http_status_error", "request_error", "not_json", "invalid_card"}

\* `a2a_response` and the tool's return value before send_task is over
NoA2AResponse == [kind |-> "none", exc |-> "none", state |-> "none", artifacts |-> << >>]
NoReturn == [status |-> "none"]

HostIdle ==
    /\ startup = "idle"
    /\ visited = 0
    /\ DISCOVERED_SPECIALIST_AGENTS = NoAgents
    /\ delegation = [pc |-> "idle", fn |-> "none", name |-> "",
                    a2a_response |-> NoA2AResponse, ret |-> NoReturn]
    /\ sent_tasks = << >>
    /\ calls = 0

\* create_host_agent awaits the discovery: it returns at once when no base
\* URL is configured, else it starts the first fetch
initialize_specialist_agents_discovery ==
    /\ startup = "idle"
    /\ startup' = IF base_urls = 0 THEN "done" ELSE "discovering"
    /\ UNCHANGED << base_urls, visited, DISCOVERED_SPECIALIST_AGENTS, delegation,
                    sent_tasks, calls >>
    /\ UNCHANGED << bridgeVars, taskVars >>

\* client.get for the next base URL is over: the loop body runs to the next
\* fetch, to the end of the loop, or to an exception that leaves the function
card_fetched(f) ==
    /\ startup = "discovering"
    /\ visited < base_urls
    /\ visited' = visited + 1
    /\ DISCOVERED_SPECIALIST_AGENTS' =
          IF f.kind = "card" THEN Cached(DISCOVERED_SPECIALIST_AGENTS, f.card)
          ELSE DISCOVERED_SPECIALIST_AGENTS
    /\ startup' = IF f.kind # "card" /\ ~ Caught(f.kind) THEN "raised"
                  ELSE IF visited' = base_urls THEN "done"
                  ELSE "discovering"
    /\ UNCHANGED << base_urls, delegation, sent_tasks, calls >>
    /\ UNCHANGED << bridgeVars, taskVars >>

\* query_payload: its characters and what json.loads makes of them
Payloads ==
    { [chars |-> << "M" >>,      json |-> "invalid"],
      [chars |-> << "7" >>,      json |-> "number"],
      [chars |-> << "{", "}" >>, json |-> "object"] }

Symbols == { << "M" >>, << >> }

\* lines 109-117: a JSON object becomes one DataPart, anything else one
\* TextPart with the payload's text
A2AParts(payload) ==
    IF payload.json = "object" THEN << Data >> ELSE << Text(payload.chars) >>

\* the parts of an artifact on the wire
DataPart(dict) == [kind |-> "data", data |-> dict]
NotePart == [kind |-> "text", text |-> "note"]
WireArtifact(name, parts) == [name |-> name, parts |-> parts]

ArtifactLists ==
    { << >>,
      << WireArtifact("stock_price_data", << DataPart(StockOk) >>) >>,
      << WireArtifact("blockchain_data", << DataPart(ChainOk) >>) >>,
      << WireArtifact("notes", << NotePart >>),
         WireArtifact("stock_price_data", << NotePart, DataPart(StockOk), DataPart(NoPrice) >>) >>,
      << WireArtifact("notes", << >>) >>,
      << WireArtifact("error_details", << DataPart(ToolError) >>) >>,
      << WireArtifact("other", << DataPart(ErrDict("other")) >>),
         WireArtifact("error_details", << NotePart, DataPart(StockOk), DataPart(ToolError) >>) >> }

\* what `await a2a_client.send_task(...)` comes to: it raises, or returns a
\* response with an error, with neither error nor result, or with a task
Exceptions == {"A2AClientHTTPError", "A2AClientJSONError", "ConnectionRefusedError",
               "TimeoutError", "RuntimeError"}

Responses ==
    [kind : {"raises"}, exc : Exceptions, state : {"none"}, artifacts : {<< >>}]
    \cup [kind : {"error", "empty"}, exc : {"none"}, state : {"none"}, artifacts : {<< >>}]
    \cup [kind : {"result"}, exc : {"none"},
          state : {"COMPLETED", "FAILED", "WORKING", "CANCELED"},
          artifacts : ArtifactLists]

ErrorResult(message) == [status |-> "error", message |-> message]
SuccessResult(data) == [status |-> "success", data |-> data]

\* the "specialist_name" key delegate_task_to_specialist adds
WithName(dict, name) ==
    [k \in DOMAIN dict \cup {"specialist_name"} |->
        IF k = "specialist_name" THEN name ELSE dict[k]]

DataParts(parts) == SelectSeq(parts, LAMBDA part : part.kind = "data")
ErrorParts(parts) ==
    SelectSeq(parts, LAMBDA part : part.kind = "data" /\ HasKey(part.data, "error"))

\* a fault: only the first artifact is looked at
FirstArtifactData(fn, artifacts) ==
    IF artifacts # << >> /\ DataParts(Head(artifacts).parts) # << >>
    THEN << Head(DataParts(Head(artifacts).parts)).data >>
    ELSE << >>

\* the loops over a COMPLETED task's artifacts: the data of the first
\* DataPart, in artifact order; call_specialist_stock_agent looks only into
\* artifacts named stock_price_data.  << >> when there is none.
RECURSIVE FirstData(_, _)
FirstData(fn, artifacts) ==
    IF artifacts = << >> THEN << >>
    ELSE IF /\ fn = "call_specialist_stock_agent" => Head(artifacts).name = "stock_price_data"
            /\ DataParts(Head(artifacts).parts) # << >>
    THEN << Head(DataParts(Head(artifacts).parts)).data >>
    ELSE FirstData(fn, Tail(artifacts))

\* the loops over a FAILED task's artifacts: the "error" of the first
\* DataPart that has one, in the artifacts named error_details
RECURSIVE FirstError(_)
FirstError(artifacts) ==
    IF artifacts = << >> THEN << >>
    ELSE IF /\ Head(artifacts).name = "error_details"
            /\ ErrorParts(Head(artifacts).parts) # << >>
    THEN << Head(ErrorParts(Head(artifacts).parts)).data.error >>
    ELSE FirstError(Tail(artifacts))

\* a fault: the last `except Exception` is missing
OnKnownException(fn, exc) ==
    CASE exc = "A2AClientHTTPError" -> ErrorResult(<< "Network error" >>)
      [] OTHER -> [status |-> "raised"]

\* the except clauses around send_task
OnException(fn, exc) ==
    CASE exc = "A2AClientHTTPError" -> ErrorResult(<< "Network error" >>)
      [] fn = "call_specialist_stock_agent" /\ exc = "A2AClientJSONError" ->
             ErrorResult(<< "Invalid response format from specialist." >>)
      [] fn = "call_specialist_stock_agent" /\ exc = "ConnectionRefusedError" ->
             ErrorResult(<< "Could not connect to specialist agent." >>)
      [] OTHER -> ErrorResult(<< "An unexpected error occurred", exc >>)

\* a fault: a COMPLETED task is a success whatever its artifacts hold
MappedByState(fn, resp) ==
    IF resp.kind = "result" /\ resp.state = "COMPLETED"
    THEN SuccessResult(resp.artifacts)
    ELSE ErrorResult(<< "Specialist agent ended in state: ", resp.state >>)

\* the try block after send_task: what the tool returns for a response
Mapped(fn, resp) ==
    CASE resp.kind = "raises" -> OnException(fn, resp.exc)
      [] resp.kind = "error" -> ErrorResult(<< "A2A protocol error" >>)
      [] resp.kind = "empty" -> ErrorResult(<< "Empty response from specialist agent." >>)
      [] resp.state = "COMPLETED" /\ resp.artifacts # << >> ->
             IF FirstData(fn, resp.artifacts) # << >>
             THEN SuccessResult(FirstData(fn, resp.artifacts)[1])
             ELSE ErrorResult(IF fn = "call_specialist_stock_agent"
                              THEN << "Received unexpected completion format from specialist agent." >>
                              ELSE << "Received no parsable data artifact from specialist." >>)
      [] resp.state = "FAILED" /\ resp.artifacts # << >> ->
             IF FirstError(resp.artifacts) # << >>
             THEN ErrorResult(<< "Specialist Error: ", FirstError(resp.artifacts)[1] >>)
             ELSE ErrorResult(<< "Specialist reported failure with unclear details." >>)
      [] OTHER -> ErrorResult(<< "Specialist agent ended in state: ", resp.state >>)

\* the names the agent may ask for; no specialist is called WeatherAgent
CallNames == AgentNames \cup {"WeatherAgent"}

SPECIALIST_A2A_URL == "http://127.0.0.1:8001/a2a"

NotFound(name) ==
    ErrorResult(<< "Specialist agent '", name, "' not found or not discovered." >>)

\* uuid.uuid4().hex: an id no earlier task has
FreshTaskId == Len(sent_tasks) + 1

ToolIdle == delegation.pc \in {"idle", "returned"} /\ calls < MaxCalls

\* a fault: the name is not looked up, the task goes to a default endpoint
delegate_unresolved(name, payload) ==
    /\ startup = "done"
    /\ ToolIdle
    /\ calls' = calls + 1
    /\ sent_tasks' = Append(sent_tasks, [url |-> SPECIALIST_A2A_URL, id |-> FreshTaskId,
                                         parts |-> A2AParts(payload)])
    /\ delegation' = [pc |-> "send_task", fn |-> "delegate_task_to_specialist",
                      name |-> name,
                              a2a_response |-> NoA2AResponse, ret |-> NoReturn]
    /\ UNCHANGED << base_urls, startup, visited, DISCOVERED_SPECIALIST_AGENTS >>
    /\ UNCHANGED << bridgeVars, taskVars >>

\* the agent, created after discovery, calls the tool: a name the registry
\* lacks is answered at once; else the task is built and handed to send_task
delegate_task_to_specialist(name, payload) ==
    /\ startup = "done"
    /\ ToolIdle
    /\ calls' = calls + 1
    /\ IF name \notin DOMAIN DISCOVERED_SPECIALIST_AGENTS
       THEN /\ delegation' = [pc |-> "returned", fn |-> "delegate_task_to_specialist",
                              name |-> name,
                              a2a_response |-> NoA2AResponse, ret |-> NotFound(name)]
            /\ UNCHANGED sent_tasks
       ELSE /\ sent_tasks' = Append(sent_tasks,
                                    [url |-> DISCOVERED_SPECIALIST_AGENTS[name].url,
                                     id |-> FreshTaskId, parts |-> A2AParts(payload)])
            /\ delegation' = [pc |-> "send_task", fn |-> "delegate_task_to_specialist",
                              name |-> name,
                              a2a_response |-> NoA2AResponse, ret |-> NoReturn]
    /\ UNCHANGED << base_urls, startup, visited, DISCOVERED_SPECIALIST_AGENTS >>
    /\ UNCHANGED << bridgeVars, taskVars >>

\* a fault: the task is sent under a session id of its own
call_specialist_unlinked(chars) ==
    /\ ToolIdle
    /\ calls' = calls + 1
    /\ \E s \in SessionIds :
          /\ sent_tasks' = Append(sent_tasks,
                                  [url |-> SPECIALIST_A2A_URL, id |-> FreshTaskId,
                                   sessionId |-> "none", parts |-> << Text(chars) >>])
          /\ delegation' = [pc |-> "send_task", fn |-> "call_specialist_stock_agent",
                            name |-> "", session_id |-> s,
                            a2a_response |-> NoA2AResponse, ret |-> NoReturn]
    /\ UNCHANGED << base_urls, startup, visited, DISCOVERED_SPECIALIST_AGENTS >>
    /\ UNCHANGED << bridgeVars, taskVars >>

\* the tool of src/host_agent/tools.py, called in the ADK session s
\* (tool_context._invocation_context.session.id): the symbol goes as one
\* TextPart, under a fresh task id and the id of that session, to the
\* configured specialist
call_specialist_stock_agent(chars) ==
    /\ ToolIdle
    /\ calls' = calls + 1
    /\ \E s \in SessionIds :
          /\ sent_tasks' = Append(sent_tasks,
                                  [url |-> SPECIALIST_A2A_URL, id |-> FreshTaskId,
                                   sessionId |-> s, parts |-> << Text(chars) >>])
          /\ delegation' = [pc |-> "send_task", fn |-> "call_specialist_stock_agent",
                            name |-> "", session_id |-> s,
                            a2a_response |-> NoA2AResponse, ret |-> NoReturn]
    /\ UNCHANGED << base_urls, startup, visited, DISCOVERED_SPECIALIST_AGENTS >>
    /\ UNCHANGED << bridgeVars, taskVars >>

\* send_task returns or raises; the tool returns its dict
send_task_answered(resp) ==
    /\ delegation.pc = "send_task"
    /\ delegation' = [delegation EXCEPT
                         !.pc = "returned",
                         !.a2a_response = resp,
                         !.ret = IF delegation.fn = "delegate_task_to_specialist"
                                 THEN WithName(Mapped(delegation.fn, resp), delegation.name)
                                 ELSE Mapped(delegation.fn, resp)]
    /\ UNCHANGED << base_urls, startup, visited, DISCOVERED_SPECIALIST_AGENTS,
                    sent_tasks, calls >>
    /\ UNCHANGED << bridgeVars, taskVars >>

(***************************************************************************)
(* The bridge as a whole.                                                  *)
(***************************************************************************)
Init ==
    /\ runner \in BOOLEAN
    /\ BridgeInit /\ manager = "stock" /\ TaskIdle /\ base_urls = 0 /\ HostIdle

Next ==
    \/ \E c \in Single, s \in SessionIds : SessionIdFree(s) /\ websocket_open(c, s)
    \/ \E c \in Single, s \in SessionIds : SessionIdFree(s) /\ websocket_refused(c, s)
    \/ \E c \in Single, s \in SessionIds : SessionIdFree(s) /\ websocket_not_ready(c, s)
    \/ \E c \in Single, s \in SessionIds, queued \in BOOLEAN :
          SessionIdFree(s) /\ websocket_setup_fails(c, s, queued)
    \/ \E c \in Single : bridge_first_completed(c)
    \/ \E c \in Single : bridge_task_awaited(c)
    \/ \E c \in Single : endpoint_cancelled(c)
    \/ \E c \in Single, e \in Events : adk_event(c, e)
    \/ \E c \in Single : adk_sent(c)
    \/ \E c \in Single : adk_send_fails(c)
    \/ \E c \in Single : adk_source_ends(c)
    \/ \E c \in Single : adk_cancelled(c)
    \/ \E c \in Single, m \in Msgs : client_message(c, m)
    \/ \E c \in Single : client_disconnect(c)
    \/ \E c \in Single : client_cancelled(c)

vars == << bridgeVars, taskVars, hostVars >>

Spec == Init /\ [][Next]_vars

\* What the event loop guarantees during teardown: asyncio.wait returns once
\* a relay task is done, a cancelled relay task gets its CancelledError at
\* the await it stands at, and `await task` returns once the task is done.
\* Nothing is assumed about the client or the upstream source.
TeardownProceeds ==
    \A c \in Single :
        /\ WF_vars(bridge_first_completed(c))
        /\ WF_vars(adk_cancelled(c))
        /\ WF_vars(client_cancelled(c))
        /\ WF_vars(bridge_task_awaited(c))

SpecFair == Init /\ [][Next]_vars /\ TeardownProceeds

(***************************************************************************)
(* Two connections at a time, on the same session id or on different ones. *)
(***************************************************************************)
SharedRoom == Inputs("c1") + Inputs("c2") < MaxSharedInputs

\* each of the two connection slots is used for one connection
Unused(c) == endpoint[c] = "idle"

SharedNext ==
    \/ \E c \in Conns, s \in SessionIds : Unused(c) /\ websocket_open(c, s)
    \/ \E c \in Conns, s \in SessionIds : Unused(c) /\ websocket_refused(c, s)
    \/ \E c \in Conns, s \in SessionIds : Unused(c) /\ websocket_not_ready(c, s)
    \/ \E c \in Conns, s \in SessionIds, queued \in BOOLEAN :
          Unused(c) /\ websocket_setup_fails(c, s, queued)
    \/ \E c \in Conns : bridge_first_completed(c)
    \/ \E c \in Conns : bridge_task_awaited(c)
    \/ \E c \in Conns : endpoint_cancelled(c)
    \/ \E c \in Conns, e \in Events : SharedRoom /\ adk_event(c, e)
    \/ \E c \in Conns : adk_sent(c)
    \/ \E c \in Conns : adk_send_fails(c)
    \/ \E c \in Conns : adk_source_ends(c)
    \/ \E c \in Conns : adk_cancelled(c)
    \/ \E c \in Conns, m \in Msgs : SharedRoom /\ client_message(c, m)
    \/ \E c \in Conns : client_disconnect(c)
    \/ \E c \in Conns : client_cancelled(c)

SpecShared == Init /\ [][SharedNext]_vars

(***************************************************************************)
(* The Specialist Task Handler as a whole.                                 *)
(***************************************************************************)
TaskInit == runner = TRUE /\ BridgeInit /\ manager \in Managers /\ TaskIdle /\ base_urls = 0 /\ HostIdle

TaskNext ==
    \/ \E r \in Reqs, t \in TaskIds, parts \in PartLists : on_send_task(r, t, parts)
    \/ \E r \in Reqs : task_upserted(r)
    \/ \E r \in Reqs : working_stored(r)
    \/ \E r \in Reqs : no_input_stored(r)
    \/ \E r \in Reqs, run \in McpRuns : mcp_enters(r, run)
    \/ \E r \in Reqs, raises \in BOOLEAN : mcp_exits(r, raises)
    \/ \E r \in Reqs, ok \in BOOLEAN : agent_created(r, ok)
    \/ \E r \in Reqs, responses \in AllRunEvents : run_event(r, responses)
    \/ \E r \in Reqs, raises \in BOOLEAN : run_ends(r, raises)
    \/ \E r \in Reqs : stack_closed(r)
    \/ \E r \in Reqs : final_stored(r)
    \/ \E r \in Reqs : error_stored(r)
    \/ \E r \in Reqs, t \in TaskIds, parts \in PartLists : on_send_task_subscribe(r, t, parts)

SpecTask == TaskInit /\ [][TaskNext]_vars

\* What the event loop guarantees once a worker call is over: the awaits of
\* the handler that follow it (exit_stack.aclose(), update_store) return.
\* Nothing is assumed about the worker itself or about requests arriving.
HandlerResumes ==
    \A r \in Reqs :
        /\ WF_vars(stack_closed(r))
        /\ WF_vars(final_stored(r))
        /\ WF_vars(error_stored(r))

SpecTaskFair == TaskInit /\ [][TaskNext]_vars /\ HandlerResumes

(***************************************************************************)
(* The host agent's tools as a whole.                                      *)
(***************************************************************************)
HostInit ==
    runner = TRUE /\ BridgeInit /\ manager = "stock" /\ TaskIdle /\ base_urls \in 0..MaxSources /\ HostIdle

HostNext ==
    \/ initialize_specialist_agents_discovery
    \/ \E f \in Fetches : card_fetched(f)
    \/ \E name \in CallNames, payload \in Payloads : delegate_task_to_specialist(name, payload)
    \/ \E chars \in Symbols : call_specialist_stock_agent(chars)
    \/ \E resp \in Responses : send_task_answered(resp)

SpecHost == HostInit /\ [][HostNext]_vars

(***************************************************************************)
(* The delegation tool and the stock handler end to end: the task params   *)
(* call_specialist_stock_agent hands to A2AClient.send_task reach           *)
(* on_send_task as request.params, and the SendTaskResponse on_send_task    *)
(* returns is what send_task returns to the tool.                          *)
(***************************************************************************)
\* the id the task store keeps a sent task under
TaskIdOf(id) == IF id = 1 THEN "t1" ELSE "t2"

\* the params of the call in hand
TaskSendParams == sent_tasks[Len(sent_tasks)]

\* the server has handed the call in hand to an invocation of on_send_task
Received ==
    \E r \in Reqs : pc[r] # "idle" /\ request[r].task_id = TaskIdOf(TaskSendParams.id)

\* on_send_task starts on the request of the call in hand: task_params,
\* task_id, session_id and input_message are read from request.params
send_task_received(r) ==
    /\ delegation.pc = "send_task"
    /\ ~ Received
    /\ pc[r] = "idle"
    /\ request' = [request EXCEPT ![r] = [id |-> RequestId(r),
                                           task_id |-> TaskIdOf(TaskSendParams.id),
                                           sessionId |-> TaskSendParams.sessionId,
                                           parts |-> TaskSendParams.parts]]
    /\ pc' = [pc EXCEPT ![r] = "upsert_task"]
    /\ UNCHANGED << manager, tasks, tasks_log, task, result, exit_stack, resources,
                    run_events, worker_calls, worker_raised, response >>
    /\ UNCHANGED << user_query, bridgeVars, hostVars >>

\* Artifact(name=..., parts=[DataPart(data=...)]) as the handler builds it
OnWire(artifacts) ==
    [i \in DOMAIN artifacts |->
        WireArtifact(artifacts[i].name, << DataPart(artifacts[i].data) >>)]

\* the SendTaskResponse as the tool reads it: a2a_response.error, or
\* a2a_response.result with the task's state and artifacts
A2AResponse(returned) ==
    IF returned.kind = "error"
    THEN [kind |-> "error", exc |-> "none", state |-> "none", artifacts |-> << >>]
    ELSE [kind |-> "result", exc |-> "none", state |-> returned.task.state,
          artifacts |-> OnWire(returned.task.artifacts)]

\* on_send_task has returned: send_task returns its response to the tool
send_task_returns(r) ==
    /\ pc[r] = "returned"
    /\ request[r].task_id = TaskIdOf(TaskSendParams.id)
    /\ send_task_answered(A2AResponse(response[r]))

EndToEndInit ==
    /\ runner = TRUE
    /\ BridgeInit
    /\ manager = "stock"
    /\ TaskIdle
    /\ base_urls = 0
    /\ HostIdle

\* the server has an invocation left for one more request
CanServe == \E r \in Reqs : pc[r] = "idle"

EndToEndNext ==
    \/ \E chars \in Symbols : CanServe /\ call_specialist_stock_agent(chars)
    \/ \E r \in Reqs : send_task_received(r)
    \/ \E r \in Reqs : task_upserted(r)
    \/ \E r \in Reqs : working_stored(r)
    \/ \E r \in Reqs : no_input_stored(r)
    \/ \E r \in Reqs, run \in McpRuns : mcp_enters(r, run)
    \/ \E r \in Reqs, raises \in BOOLEAN : mcp_exits(r, raises)
    \/ \E r \in Reqs : final_stored(r)
    \/ \E r \in Reqs : error_stored(r)
    \/ \E r \in Reqs : send_task_returns(r)

SpecEndToEnd == EndToEndInit /\ [][EndToEndNext]_vars

(***************************************************************************)
(* Properties of the bridge, under Spec.                                   *)
(***************************************************************************)
\* C1: once the handler of a connection has exited (it has deleted the
\* session by then), neither relay task of the connection is still running:
\* the loop that was left was cancelled and awaited first, on every exit path,
\* the cancellation of the handler included.
C1_NoRelayTaskAfterExit ==
    \A c \in Conns :
        endpoint[c] = "exited" =>
            /\ adk_run_task[c].st # "running"
            /\ client_listener_task[c].st # "running"

\* C2: whenever the handler has exited after it had created the session and
\* the queue, the queue has been closed, every relay task that is still
\* running has been asked to cancel, and the session id is no longer in the
\* store.
C2_CleanupOnExit ==
    \A c \in Conns :
        endpoint[c] = "exited" /\ live_request_queue[c].created /\ session[c].exists =>
            /\ \E i \in DOMAIN live_request_queue[c].items :
                  live_request_queue[c].items[i] = Close
            /\ \A tk \in {adk_run_task[c], client_listener_task[c]} :
                  tk.st = "running" => tk.cancel
            /\ ~ session_store[session_id[c]].exists

\* the handler was cancelled while both loops ran: it has exited, the queue is
\* closed, the session is gone and a relay task has its cancellation pending
C2_ExitedWithCleanup ==
    \E c \in Conns :
        /\ endpoint[c] = "exited"
        /\ live_request_queue[c].created
        /\ live_request_queue[c].items # << >>
        /\ live_request_queue[c].items[Len(live_request_queue[c].items)] = Close
        /\ adk_run_task[c] = [st |-> "running", cancel |-> TRUE]
        /\ ~ session_store[session_id[c]].exists

\* the value the deltas of a log leave under a key
RECURSIVE LastWrite(_, _)
LastWrite(log, key) ==
    IF log = << >> THEN Unset
    ELSE IF log[Len(log)].delta[key] # NoChange THEN log[Len(log)].delta[key]
    ELSE LastWrite(SubSeq(log, 1, Len(log) - 1), key)

\* C4: the deltas the two loops apply to a session are applied one after the
\* other: in every interleaving the state map holds, for every key, the value
\* of the last delta that wrote it, in the store and in the shared handle.
C4_NoLostUpdate ==
    \A c \in Conns :
        Live(c) /\ session[c].exists =>
            \A key \in Keys :
                /\ session_store[session_id[c]].state[key] = LastWrite(applied[c], key)
                /\ session[c].state[key] = LastWrite(applied[c], key)

\* both loops have written the same key of a session, and one of them another
C4_BothLoopsWrote ==
    \E c \in Conns :
        /\ Live(c)
        /\ \E i, j \in DOMAIN applied[c] :
              /\ applied[c][i].by = "adk_to_client"
              /\ applied[c][i].delta["mock_a2a_calls"] # NoChange
              /\ applied[c][j].by = "client_to_adk"
        /\ \E i \in DOMAIN applied[c] : applied[c][i].delta["k"] # NoChange
        /\ session_store[session_id[c]].state["k"] # Unset
        /\ session_store[session_id[c]].state["mock_a2a_calls"] # Unset

\* the messages an event is relayed as, in the order of the loop body
MessagesOf(e) ==
    (IF e.interrupted THEN << WsMsg("interrupted", << >>) >> ELSE << >>)
    \o (IF SendsAudio(e) THEN << WsMsg("audio", b64encode(e.parts[1].data)) >> ELSE << >>)
    \o (IF e.turn_complete THEN << WsMsg("turn_complete", << >>) >> ELSE << >>)

RECURSIVE AllMessages(_)
AllMessages(events) ==
    IF events = << >> THEN << >>
    ELSE MessagesOf(Head(events)) \o AllMessages(Tail(events))

RECURSIVE AllForwarded(_)
AllForwarded(msgs) ==
    IF msgs = << >> THEN << >>
    ELSE Forwarded(Head(msgs)) \o AllForwarded(Tail(msgs))

IsPrefix(p, q) == Len(p) <= Len(q) /\ SubSeq(q, 1, Len(p)) = p

\* what has been put on the queue, the close item apart
Sunk(c) == SelectSeq(live_request_queue[c].items, LAMBDA item : item # Close)

\* C5: what has been sent to the client is, in order, what the events
\* received so far are relayed as, with everything of the earlier events
\* sent before the latest event was taken; what has been put on the queue
\* is, in order, what the client messages received so far are forwarded as.
C5_ForwardedInOrder ==
    \A c \in Conns :
        /\ IsPrefix(ws_out[c], AllMessages(events_in[c]))
        /\ events_in[c] # << >> =>
              IsPrefix(AllMessages(SubSeq(events_in[c], 1, Len(events_in[c]) - 1)), ws_out[c])
        /\ Sunk(c) = AllForwarded(msgs_in[c])

\* an event has been relayed as three messages and two client messages have
\* been forwarded as two different items
C5_SeveralEachWay ==
    \E c \in Conns :
        /\ Len(events_in[c]) = 1
        /\ Len(ws_out[c]) = 3
        /\ ws_out[c] = AllMessages(events_in[c])
        /\ Len(msgs_in[c]) = 2
        /\ Len(Sunk(c)) = 2
        /\ Sunk(c)[1] # Sunk(c)[2]

\* the downstream loop takes a message and dispatches it
Processed(c) == Len(msgs_in'[c]) = Len(msgs_in[c]) + 1
LastMsg(c) == msgs_in'[c][Len(msgs_in'[c])]

\* C6: when the downstream loop has processed a toggle_mock message with
\* value v, the state map holds mock_a2a_calls = v in the store and in the
\* reloaded handle, no event having been taken from upstream, and the write
\* is one more delta applied through append_event.
C6_ToggleMockImmediate ==
    [][\A c \in Conns :
          Processed(c) /\ LastMsg(c).type = "toggle_mock" /\ session[c].exists =>
              /\ session_store'[session_id[c]].state["mock_a2a_calls"] = LastMsg(c).value
              /\ session'[c].exists
              /\ session'[c].state["mock_a2a_calls"] = LastMsg(c).value
              /\ events_in'[c] = events_in[c]
              /\ applied'[c] = Append(applied[c],
                                      [by |-> "client_to_adk",
                                       delta |-> DeltaOf("mock_a2a_calls", LastMsg(c).value)])]_vars

\* mock_a2a_calls has been switched on with no upstream event received
C6_MockSetWithoutEvent ==
    \E c \in Conns :
        /\ Live(c)
        /\ events_in[c] = << >>
        /\ msgs_in[c] # << >>
        /\ msgs_in[c][Len(msgs_in[c])] = Msg("toggle_mock", << >>, "true")
        /\ session_store[session_id[c]].state["mock_a2a_calls"] = "true"
        /\ session[c].state["mock_a2a_calls"] = "true"

EmptyAudio(m) == m.type = "audio" /\ (m.data = << >> \/ b64decode(m.data) = << >>)

\* C7: an audio message whose data is empty or decodes to zero bytes puts
\* nothing on the queue and leaves the downstream loop running and the
\* session in place.
C7_EmptyAudioDropped ==
    [][\A c \in Conns :
          Processed(c) /\ EmptyAudio(LastMsg(c)) =>
              /\ live_request_queue'[c] = live_request_queue[c]
              /\ Active(client_listener_task'[c])
              /\ session_store' = session_store
              /\ session'[c] = session[c]
              /\ endpoint'[c] = endpoint[c]]_vars

\* after an audio message that decodes to zero bytes the loop has forwarded
\* the text message that followed it
C7_LoopWentOn ==
    \E c \in Conns :
        /\ Len(msgs_in[c]) = 2
        /\ EmptyAudio(msgs_in[c][1])
        /\ msgs_in[c][1].data # << >>
        /\ msgs_in[c][2].type = "text"
        /\ live_request_queue[c].items = << Content(msgs_in[c][2].data) >>
        /\ Active(client_listener_task[c])

(***************************************************************************)
(* Properties of the Specialist Task Handler, under SpecTask.              *)
(***************************************************************************)
\* C3: the states written to the store for a task id only ever move
\* SUBMITTED -> WORKING -> COMPLETED or FAILED, whatever requests are handled
\* for that id: nothing is written once a terminal state has been.
C3_StatusOnlyMovesForward ==
    \A t \in TaskIds :
        \A i \in 1..(Len(tasks_log[t]) - 1) :
            /\ tasks_log[t][i] \notin Terminal
            /\ << tasks_log[t][i], tasks_log[t][i + 1] >> \in
                  { << "SUBMITTED", "WORKING" >>, << "WORKING", "WORKING" >>,
                    << "WORKING", "COMPLETED" >>, << "WORKING", "FAILED" >> }

Returns(r) == pc[r] # "returned" /\ pc'[r] = "returned"

\* the parts hold no text part with anything but blanks in it
NoUsableText(parts) ==
    \A i \in DOMAIN parts :
        parts[i].kind = "text" => \A j \in DOMAIN parts[i].text : parts[i].text[j] = " "

MissingInputMessages ==
    { "Error: Ticker symbol not provided in the request.",
      "No query provided.",
      "Ticker symbol not provided." }

\* C8: a request whose parts hold no usable text returns with the task
\* stored as FAILED with one error_details artifact that says the input is
\* missing; the response carries that task under the id of the request; the
\* worker was not started and no worker resource was opened.
C8_MissingInputFails ==
    [][\A r \in Reqs :
          Returns(r) /\ NoUsableText(request[r].parts) =>
              /\ tasks'[request[r].task_id].state = "FAILED"
              /\ Len(tasks'[request[r].task_id].artifacts) = 1
              /\ tasks'[request[r].task_id].artifacts[1].name = "error_details"
              /\ tasks'[request[r].task_id].artifacts[1].data.error \in MissingInputMessages
              /\ response'[r].kind = "result"
              /\ response'[r].id = request[r].id
              /\ response'[r].task.state = "FAILED"
              /\ response'[r].task.artifacts = tasks'[request[r].task_id].artifacts
              /\ worker_calls'[r] = 0
              /\ resources'[r] = NoResources]_vars

\* a request with a part list that holds parts, none of them usable, has
\* been answered with the FAILED task
C8_AnsweredMissingInput ==
    \E r \in Reqs :
        /\ pc[r] = "returned"
        /\ request[r].parts # << >>
        /\ NoUsableText(request[r].parts)
        /\ response[r].task.state = "FAILED"
        /\ worker_calls[r] = 0

C10_TornDownBeforeFinalWrite ==
    \A r \in Reqs :
        pc[r] \in {"update_final", "update_error", "returned"} =>
            /\ resources[r].open = {}
            /\ \A x \in Resources : resources[r].closed[x] <= 1

\* a request has returned COMPLETED from a worker whose resources were
\* opened and closed
C10_CompletedAndClosed ==
    \E r \in Reqs :
        /\ pc[r] = "returned"
        /\ response[r].task.state = "COMPLETED"
        /\ \E x \in Resources : resources[r].closed[x] = 1

InternalErrorArtifact == ErrorArtifact("Internal server error processing task.")

\* C12: when an exception reaches `except Exception` of on_send_task, the
\* response is a protocol-level internal error under the id of the request,
\* with no task in it, and by then the last write to the store for the task
\* is FAILED with the error_details artifact of the internal error; no other
\* path answers with an error.
C12_ErrorAfterFailedStored ==
    [][\A r \in Reqs :
          Returns(r) =>
              IF manager = "stock" /\ worker_raised'[r]
              THEN /\ response'[r] = InternalError(request[r].id)
                   /\ tasks'[request[r].task_id].exists
                   /\ tasks'[request[r].task_id].state = "FAILED"
                   /\ tasks'[request[r].task_id].artifacts = << InternalErrorArtifact >>
                   /\ Len(tasks_log'[request[r].task_id]) = Len(tasks_log[request[r].task_id]) + 1
                   /\ tasks_log'[request[r].task_id][Len(tasks_log'[request[r].task_id])] = "FAILED"
              ELSE response'[r].kind # "error"]_vars

\* a request was answered with the internal error and its task is stored
\* FAILED with the artifact of the internal error
C12_AnsweredInternalError ==
    \E r \in Reqs :
        /\ pc[r] = "returned"
        /\ response[r] = InternalError(RequestId(r))
        /\ tasks[request[r].task_id].state = "FAILED"
        /\ tasks[request[r].task_id].artifacts = << InternalErrorArtifact >>

\* C13: a tasks/sendSubscribe request is answered, in the step that receives
\* it, with the unsupported-operation error under the id of the request,
\* whatever its task id and parts and whatever the store holds; the store
\* and the log of its writes are left as they were, and no worker is started.
C13_SubscribeRejected ==
    [][\A r \in Reqs :
          pc[r] # "rejected" /\ pc'[r] = "rejected" =>
              /\ response'[r] = UnsupportedOperationError(RequestId(r))
              /\ response'[r].id = request'[r].id
              /\ tasks' = tasks
              /\ tasks_log' = tasks_log
              /\ worker_calls' = worker_calls
              /\ resources' = resources]_vars

\* a subscription was rejected for the id of a task the store holds as
\* COMPLETED, and the task is still stored as COMPLETED
C13_RejectedForStoredTask ==
    \E r \in Reqs :
        /\ pc[r] = "rejected"
        /\ response[r].kind = "unsupported"
        /\ tasks[request[r].task_id].state = "COMPLETED"
        /\ tasks[request[r].task_id].artifacts # << >>

(***************************************************************************)
(* Properties of the host agent's tools, under SpecHost.                   *)
(***************************************************************************)
Answered == delegation.pc = "returned" /\ delegation.a2a_response.kind # "none"

\* every data part of the artifacts, in artifact order
RECURSIVE AllDataParts(_)
AllDataParts(artifacts) ==
    IF artifacts = << >> THEN << >>
    ELSE DataParts(Head(artifacts).parts) \o AllDataParts(Tail(artifacts))

\* the artifacts a tool accepts a result from
Accepted(fn, artifacts) ==
    SelectSeq(artifacts,
              LAMBDA a : fn = "call_specialist_stock_agent" => a.name = "stock_price_data")

\* C14 as stated: whenever the response is a COMPLETED task with a data
\* part in an artifact, either tool returns success with that data.
C14_RoundTripAnyArtifact ==
    Answered /\ delegation.a2a_response.kind = "result"
             /\ delegation.a2a_response.state = "COMPLETED"
             /\ AllDataParts(delegation.a2a_response.artifacts) # << >> =>
        /\ delegation.ret.status = "success"
        /\ delegation.ret.data = Head(AllDataParts(delegation.a2a_response.artifacts)).data

\* C14: whenever the response is a COMPLETED task with a data part in an
\* artifact the tool accepts (any artifact for delegate_task_to_specialist,
\* those named stock_price_data for call_specialist_stock_agent), the tool
\* returns success with the data of the first such part, unchanged.
C14_RoundTrip ==
    Answered /\ delegation.a2a_response.kind = "result"
             /\ delegation.a2a_response.state = "COMPLETED"
             /\ AllDataParts(Accepted(delegation.fn, delegation.a2a_response.artifacts)) # << >> =>
        /\ delegation.ret.status = "success"
        /\ delegation.ret.data =
              Head(AllDataParts(Accepted(delegation.fn, delegation.a2a_response.artifacts))).data

\* call_specialist_stock_agent has returned {price: 100, symbol: "ABC"} from
\* a COMPLETED task whose data part comes second in its second artifact
C14_PriceCameBack ==
    /\ Answered
    /\ delegation.fn = "call_specialist_stock_agent"
    /\ delegation.a2a_response.state = "COMPLETED"
    /\ Len(delegation.a2a_response.artifacts) = 2
    /\ delegation.ret = SuccessResult(StockOk)

\* the "error" entries of the data parts of the artifacts named
\* error_details, in order
RECURSIVE ErrorDetails(_)
ErrorDetails(artifacts) ==
    IF artifacts = << >> THEN << >>
    ELSE (IF Head(artifacts).name = "error_details"
          THEN ErrorParts(Head(artifacts).parts) ELSE << >>)
         \o ErrorDetails(Tail(artifacts))

GenericFailures ==
    { << "Specialist reported failure with unclear details." >>,
      << "Specialist agent ended in state: ", "FAILED" >> }

\* C15: delegate_task_to_specialist returns status success exactly when the
\* response is a task that is COMPLETED and has a data part in some
\* artifact, and then the data is that of the first data part in artifact
\* order; in every other case (protocol error, empty response, COMPLETED
\* without a data part, FAILED, any other state) it returns status error
\* with a message; for FAILED the message is the error of the error_details
\* artifact when it holds one, else a generic one.
C15_OutcomeMapping ==
    Answered /\ delegation.fn = "delegate_task_to_specialist"
             /\ delegation.a2a_response.kind # "raises" =>
        LET resp == delegation.a2a_response
            ret == delegation.ret
            good == /\ resp.kind = "result"
                    /\ resp.state = "COMPLETED"
                    /\ AllDataParts(resp.artifacts) # << >>
        IN  /\ ret.status \in {"success", "error"}
            /\ ret.status = "success" <=> good
            /\ good => ret.data = Head(AllDataParts(resp.artifacts)).data
            /\ ~ good => ret.message # << >>
            /\ resp.kind = "result" /\ resp.state = "FAILED" =>
                  IF ErrorDetails(resp.artifacts) # << >>
                  THEN ret.message = << "Specialist Error: ",
                                        Head(ErrorDetails(resp.artifacts)).data.error >>
                  ELSE ret.message \in GenericFailures

\* delegate_task_to_specialist has returned the specialist's error, found
\* in the second artifact of a FAILED task
C15_SpecialistErrorReported ==
    /\ Answered
    /\ delegation.fn = "delegate_task_to_specialist"
    /\ delegation.a2a_response.state = "FAILED"
    /\ Len(delegation.a2a_response.artifacts) = 2
    /\ delegation.ret.status = "error"
    /\ delegation.ret.message = << "Specialist Error: ", "tool failed" >>

\* the message says `not found`
MentionsNotFound(message) ==
    \E i \in DOMAIN message : message[i] = "' not found or not discovered."

\* C16: a call of delegate_task_to_specialist with a name that is not a key
\* of the registry returns in the step that makes it, with status error and
\* a message that says `not found`; no task id is drawn and nothing is
\* handed to send_task.  With an empty registry that is every call.
C16_UnknownNameFailsAtOnce ==
    [][calls' = calls + 1 /\ delegation'.fn = "delegate_task_to_specialist"
          /\ delegation'.name \notin DOMAIN DISCOVERED_SPECIALIST_AGENTS =>
              /\ delegation'.pc = "returned"
              /\ delegation'.ret.status = "error"
              /\ MentionsNotFound(delegation'.ret.message)
              /\ DOMAIN delegation'.ret = {"status", "message"}
              /\ sent_tasks' = sent_tasks
              /\ tasks' = tasks]_vars

\* discovery went through two sources and found no specialist; two
\* delegation calls were made and nothing was ever sent
C16_NothingDiscoveredNothingSent ==
    /\ startup = "done"
    /\ visited = 2
    /\ DISCOVERED_SPECIALIST_AGENTS = NoAgents
    /\ calls = 2
    /\ delegation.pc = "returned"
    /\ delegation.fn = "delegate_task_to_specialist"
    /\ delegation.name \in AgentNames
    /\ MentionsNotFound(delegation.ret.message)
    /\ sent_tasks = << >>

C18_DiscoveryNeverAborts ==
    /\ startup # "raised"
    /\ startup = "done" => visited = base_urls

\* C19: every entry of the registry is keyed by the name of its own card,
\* and that name and the card's url are not empty; once discovery is over
\* the registry does not change, whatever tool call is made or answered.
C19_RegistryValidAndFrozen ==
    [][/\ \A n \in DOMAIN DISCOVERED_SPECIALIST_AGENTS' :
             /\ DISCOVERED_SPECIALIST_AGENTS'[n].name = n
             /\ n # ""
             /\ DISCOVERED_SPECIALIST_AGENTS'[n].url # ""
       /\ startup \in {"done", "raised"} =>
             DISCOVERED_SPECIALIST_AGENTS' = DISCOVERED_SPECIALIST_AGENTS]_vars

\* two specialists were discovered and a delegation to one of them was
\* sent to the url of its card and answered
C19_TwoCachedOneCalled ==
    /\ startup = "done"
    /\ DOMAIN DISCOVERED_SPECIALIST_AGENTS = AgentNames
    /\ Answered
    /\ delegation.name \in AgentNames
    /\ sent_tasks[Len(sent_tasks)].url = DISCOVERED_SPECIALIST_AGENTS[delegation.name].url

(***************************************************************************)
(* Properties of connections that run side by side, under SpecShared.      *)
(***************************************************************************)
Sessions(store) == {s \in SessionIds : store[s].exists}

\* C20: when a connection opens its session, a session the store holds
\* under that id is handed out as it is stored and the store is left as it
\* was; when the store holds none, one session with an empty state map is
\* created under that id and nothing else in the store changes.
C20_OpenSessionIdempotent ==
    [][\A c \in Conns :
          endpoint[c] = "idle" /\ endpoint'[c] = "wait" =>
              LET s == session_id'[c] IN
              IF session_store[s].exists
              THEN /\ session_store' = session_store
                   /\ session'[c] = session_store[s]
              ELSE /\ session_store'[s] = [exists |-> TRUE, state |-> EmptyState]
                   /\ session'[c] = session_store'[s]
                   /\ Sessions(session_store') = Sessions(session_store) \cup {s}
                   /\ \A t \in SessionIds \ {s} : session_store'[t] = session_store[t]]_vars

\* two connections are live on one session id; the second was handed the
\* session with the mock flag the first had set
C20_SecondGotStoredSession ==
    \E c, d \in Conns :
        /\ c # d
        /\ Live(c) /\ Live(d)
        /\ session_id[c] = session_id[d]
        /\ Inputs(c) = 1 /\ Inputs(d) = 0
        /\ session[d].exists
        /\ session[d].state # EmptyState
        /\ session[d] = session_store[session_id[d]]

(***************************************************************************)
(* Further properties of the bridge, under Spec.                           *)
(***************************************************************************)
\* the handler of c has run and holds no session: the lookup or the creation
\* raised, or the handler returned for want of a runner
NoSessionObtained(c) == endpoint[c] # "idle" /\ ~ session[c].exists

\* C21: a connection whose handler obtained no session (the store raised on
\* lookup or creation, or the runner was never set) is refused: it has no
\* command queue (no live run), neither relay task was created, the socket
\* was closed with code 1011 and the handler is over; without a runner no
\* connection ever gets a session, a queue or a relay task.
C21_RefusedWithoutSession ==
    /\ \A c \in Conns :
          NoSessionObtained(c) =>
              /\ endpoint[c] = "exited"
              /\ ~ live_request_queue[c].created
              /\ adk_run_task[c] = NoTask
              /\ client_listener_task[c] = NoTask
              /\ ws_close[c] = 1011
              /\ events_in[c] = << >> /\ msgs_in[c] = << >> /\ ws_out[c] = << >>
    /\ ~ runner =>
          /\ \A c \in Conns : endpoint[c] # "idle" => NoSessionObtained(c)
          /\ \A s \in SessionIds : ~ session_store[s].exists

\* with the runner in place, the store failed a connection: it was closed
\* with 1011 and its handler is over
C21_RefusedByStore ==
    \E c \in Conns :
        /\ runner
        /\ NoSessionObtained(c)
        /\ ws_close[c] = 1011
        /\ endpoint[c] = "exited"

\* the downstream loop of c has been handed an audio payload b64decode
\* rejects: binascii.Error, an exception that is no client disconnect
RelayLoopError(c) == \E i \in DOMAIN msgs_in[c] : BadAudio(msgs_in[c][i])

\* C22: when the handler has exited after an exception other than a client
\* disconnect was raised in a relay loop, the socket has been closed with a
\* reason code.
C22_ErrorClosesWithCode ==
    \A c \in Conns :
        endpoint[c] = "exited" /\ RelayLoopError(c) => ws_close[c] # 0

\* what the claim has the relay emit for one event: the three messages, each
\* under its own condition, in this order
Emitted(e) ==
    LET first_is_audio == Len(e.parts) >= 1 /\ e.parts[1].kind = "audio"
    IN  (IF e.interrupted THEN << [type |-> "interrupted", data |-> << >>] >> ELSE << >>)
        \o (IF first_is_audio
            THEN << [type |-> "audio", data |-> b64encode(e.parts[1].data)] >>
            ELSE << >>)
        \o (IF e.turn_complete THEN << [type |-> "turn_complete", data |-> << >>] >> ELSE << >>)

RECURSIVE EmittedForAll(_)
EmittedForAll(events) ==
    IF events = << >> THEN << >>
    ELSE Emitted(Head(events)) \o EmittedForAll(Tail(events))

\* C23: once the upstream loop is through the body of every event it has
\* taken, the client has been sent, event by event, exactly: interrupted iff
\* the flag is set, then audio iff the first part is audio, then
\* turn_complete iff that flag is set; and nothing of another type is ever
\* sent.
C23_EventRelayedExactly ==
    \A c \in Conns :
        /\ adk_at[c].at = "next" => ws_out[c] = EmittedForAll(events_in[c])
        /\ \A i \in DOMAIN ws_out[c] :
              ws_out[c][i].type \in {"audio", "turn_complete", "interrupted"}

\* an event whose second part is audio was relayed as nothing, and the event
\* after it as interrupted, audio and turn_complete
C23_ThreeAfterNone ==
    \E c \in Conns :
        /\ adk_at[c].at = "next"
        /\ Len(events_in[c]) = 2
        /\ Len(events_in[c][1].parts) = 2
        /\ events_in[c][1].parts[2].kind = "audio"
        /\ Len(ws_out[c]) = 3
        /\ ws_out[c][1].type = "interrupted"
        /\ ws_out[c][2].type = "audio"
        /\ ws_out[c][2].data = << "Q", "U", "I", "=" >>
        /\ ws_out[c][3].type = "turn_complete"

\* the upstream loop of c takes an event, or comes back from a send
TakesEvent(c) == Len(events_in'[c]) = Len(events_in[c]) + 1
UpstreamStep(c) ==
    /\ Active(adk_run_task[c])
    /\ TakesEvent(c) \/ (events_in'[c] = events_in[c] /\ adk_at'[c] # adk_at[c])

\* the event that step works on
EventInHand(c) ==
    IF TakesEvent(c) THEN events_in'[c][Len(events_in'[c])] ELSE adk_at[c].event

\* C24: the step of the upstream loop that ends the body of an event with a
\* non-empty state delta or an artifact delta (the loop can take its next
\* event only after it) has applied the delta to the stored session and
\* left the handle equal to the stored session; every other step of the
\* loop, and so every step on an event without a delta, leaves the store,
\* the handle and the log of applied deltas as they were.
C24_DeltaAppliedBeforeNext ==
    [][\A c \in Conns :
          UpstreamStep(c) =>
              LET e == EventInHand(c)
                  sid == session_id[c]
                  carries == (\E key \in Keys : e.state_delta[key] # NoChange)
                             \/ e.artifact_delta
              IN  IF adk_at'[c].at = "next" /\ carries
                  THEN /\ session_store'[sid].state =
                             UpdateState(session_store[sid].state, e.state_delta)
                       /\ session'[c] = session_store'[sid]
                       /\ applied'[c] = Append(applied[c],
                                               [by |-> "adk_to_client",
                                                delta |-> e.state_delta])
                  ELSE /\ session_store' = session_store
                       /\ session'[c] = session[c]
                       /\ applied'[c] = applied[c]]_vars

\* the loop is at a send for its second event, and the delta of the first
\* is in the store and in the handle
C24_SecondSeesFirst ==
    \E c \in Conns :
        /\ Active(adk_run_task[c])
        /\ Len(events_in[c]) = 2
        /\ adk_at[c].at # "next"
        /\ events_in[c][1].state_delta["k"] = "a"
        /\ msgs_in[c] = << >>
        /\ session_store[session_id[c]].state["k"] = "a"
        /\ session[c].state["k"] = "a"
        /\ Len(applied[c]) = 1

(***************************************************************************)
(* Further properties of the Specialist Task Handler, under SpecTask.      *)
(***************************************************************************)
\* the invocation starts its worker
StartsWorker(r) == worker_calls'[r] = worker_calls[r] + 1

\* the invocation is past its first store update
PastFirstUpdate(r) == pc[r] \notin {"idle", "upsert_task", "update_working", "rejected"}

\* C25: the step that starts the worker of a request is the step that has
\* WORKING in the store for its task; the first thing an invocation writes
\* to the store is WORKING, so a request past its first update has WORKING
\* in the log of its task; and in no log is SUBMITTED followed by anything
\* but WORKING, the missing-input failure included.
C25_WorkingBeforeWorker ==
    [][/\ \A r \in Reqs :
             StartsWorker(r) =>
                 /\ tasks'[request[r].task_id].state = "WORKING"
                 /\ pc[r] = "update_working"
                 /\ tasks_log'[request[r].task_id] =
                       Append(tasks_log[request[r].task_id], "WORKING")
       /\ \A r \in Reqs :
             PastFirstUpdate(r)' =>
                 \E i \in DOMAIN tasks_log'[request'[r].task_id] :
                     tasks_log'[request'[r].task_id][i] = "WORKING"
       /\ \A r \in Reqs :
             pc[r] = "update_working" /\ pc'[r] # "update_working" =>
                 tasks'[request[r].task_id].state = "WORKING"
       /\ \A t \in TaskIds :
             \A i \in 1..(Len(tasks_log'[t]) - 1) :
                 tasks_log'[t][i] = "SUBMITTED" => tasks_log'[t][i + 1] = "WORKING"]_vars

\* a request without input has failed its task through WORKING while the
\* worker of another request runs on a task stored as WORKING
C25_FailedThroughWorking ==
    \E r, q \in Reqs :
        /\ r # q
        /\ pc[r] = "returned"
        /\ worker_calls[r] = 0
        /\ tasks_log[request[r].task_id] = << "SUBMITTED", "WORKING", "FAILED" >>
        /\ worker_calls[q] = 1
        /\ pc[q] \notin {"returned", "update_final", "update_error"}
        /\ tasks[request[q].task_id].state = "WORKING"

(***************************************************************************)
(* Properties of the downstream relay loop, under Spec.                    *)
(***************************************************************************)
\* a structured content whose single part is a text part with that text
SingleTextContent(text) == [kind |-> "content", data |-> << >>, text |-> text]

\* C26 as stated: every text message the downstream loop takes puts exactly
\* one content with a single text part holding its data on the queue.
C26_EveryTextForwarded ==
    [][\A c \in Conns :
          Processed(c) /\ LastMsg(c).type = "text" =>
              live_request_queue'[c].items =
                  Append(live_request_queue[c].items, SingleTextContent(LastMsg(c).data))]_vars

\* C26, amended: a text message with non-empty data puts exactly one content
\* with a single text part holding its data on the queue; a text message
\* whose data is empty puts nothing on it; either way the loop runs on.
C26_NonEmptyTextForwarded ==
    [][\A c \in Conns :
          Processed(c) /\ LastMsg(c).type = "text" =>
              /\ live_request_queue'[c].items =
                    IF LastMsg(c).data # << >>
                    THEN Append(live_request_queue[c].items,
                                SingleTextContent(LastMsg(c).data))
                    ELSE live_request_queue[c].items
              /\ Active(client_listener_task'[c])]_vars

\* an empty text message was dropped and the text message after it forwarded
C26_TextAfterEmptyText ==
    \E c \in Conns :
        /\ Len(msgs_in[c]) = 2
        /\ msgs_in[c][1] = Msg("text", << >>, "false")
        /\ msgs_in[c][2].type = "text"
        /\ msgs_in[c][2].data # << >>
        /\ live_request_queue[c].items = << SingleTextContent(msgs_in[c][2].data) >>

\* C27: a client message of type end_of_turn, or of a type that is none of
\* audio, text, end_of_turn and toggle_mock, leaves the queue, the store,
\* the session handle, the log of applied deltas and what was sent to the
\* client as they were, and the downstream loop running.
C27_NoOpMessages ==
    [][\A c \in Conns :
          Processed(c) /\ LastMsg(c).type \notin {"audio", "text", "toggle_mock"} =>
              /\ live_request_queue'[c] = live_request_queue[c]
              /\ session_store' = session_store
              /\ session'[c] = session[c]
              /\ applied'[c] = applied[c]
              /\ ws_out'[c] = ws_out[c]
              /\ ws_close'[c] = ws_close[c]
              /\ Active(client_listener_task'[c])
              /\ endpoint'[c] = endpoint[c]]_vars

\* after an end_of_turn and a message of an unknown type the loop has
\* forwarded a text message, with nothing else on the queue
C27_ForwardedAfterNoOps ==
    \E c \in Conns :
        /\ Len(msgs_in[c]) = 3
        /\ msgs_in[c][1].type = "end_of_turn"
        /\ msgs_in[c][2].type = "bogus"
        /\ msgs_in[c][3].type = "text"
        /\ Len(live_request_queue[c].items) = 1
        /\ live_request_queue[c].items[1].kind = "content"
        /\ ws_out[c] = << >>
        /\ Active(client_listener_task[c])

\* C28: a relay task that stops running has completed (every exception,
\* disconnect and cancellation is caught inside the loop); a downstream loop
\* that ends on a disconnect or an error, and not on a cancellation, has put
\* the close item on the queue; once a relay task is done the handler's wait
\* can return, and the step that takes the handler out of its wait leaves
\* every relay task that still runs with a cancellation requested; the
\* handler exits through its cleanup: the queue closed, the session deleted.
C28_LoopsEndHandled ==
    [][\A c \in Conns :
          /\ adk_run_task[c].st = "running" /\ adk_run_task'[c].st # "running" =>
                adk_run_task'[c].st = "done"
          /\ client_listener_task[c].st = "running"
                /\ client_listener_task'[c].st # "running" =>
                    client_listener_task'[c].st = "done"
          /\ Active(client_listener_task[c]) /\ Done(client_listener_task'[c]) =>
                live_request_queue'[c].items = Append(live_request_queue[c].items, Close)
          /\ endpoint[c] = "wait" /\ (Done(adk_run_task[c]) \/ Done(client_listener_task[c])) =>
                ENABLED bridge_first_completed(c)
          /\ endpoint[c] = "wait" /\ endpoint'[c] # "wait" =>
                /\ adk_run_task'[c].st = "running" => adk_run_task'[c].cancel
                /\ client_listener_task'[c].st = "running" =>
                      client_listener_task'[c].cancel
          /\ Live(c) /\ endpoint'[c] = "exited" =>
                /\ live_request_queue'[c].items # << >>
                /\ live_request_queue'[c].items[Len(live_request_queue'[c].items)] = Close
                /\ ~ session_store'[session_id[c]].exists]_vars

\* a malformed audio payload ended the downstream loop; the upstream loop
\* was cancelled and the handler has exited through its cleanup
C28_BadAudioHandled ==
    \E c \in Conns :
        /\ msgs_in[c] # << >>
        /\ BadAudio(msgs_in[c][Len(msgs_in[c])])
        /\ client_listener_task[c] = [st |-> "done", cancel |-> FALSE]
        /\ adk_run_task[c] = [st |-> "done", cancel |-> TRUE]
        /\ endpoint[c] = "exited"
        /\ live_request_queue[c].items = << Close, Close >>
        /\ ~ session_store[session_id[c]].exists

(***************************************************************************)
(* Properties of the handler's classification and query, under SpecTask.   *)
(***************************************************************************)
\* a well-formed success payload: no error key and, for the stock handlers,
\* a price key
WellFormed(mgr, payload) ==
    /\ "error" \notin DOMAIN payload
    /\ mgr # "blockchain" => "price" \in DOMAIN payload

\* C29: a request whose worker was started returns with its task stored as
\* COMPLETED exactly when the worker returned a well-formed success payload,
\* and then with one data artifact that holds the payload as it is; in
\* every other case with the task stored as FAILED with one artifact named
\* error_details that holds an error message, the worker's own when its
\* payload has one; and the handler always returns a response.
C29_OutcomeClassified ==
    [][\A r \in Reqs :
          Returns(r) /\ worker_calls[r] = 1 =>
              LET stored == tasks'[request[r].task_id]
                  payload == result[r]
              IN  /\ response'[r].kind \in {"result", "error"}
                  /\ response'[r].id = request[r].id
                  /\ IF ~ worker_raised[r] /\ WellFormed(manager, payload)
                     THEN /\ stored.state = "COMPLETED"
                          /\ Len(stored.artifacts) = 1
                          /\ stored.artifacts[1].name \in {"stock_price_data", "blockchain_data"}
                          /\ stored.artifacts[1].data = payload
                     ELSE /\ stored.state = "FAILED"
                          /\ Len(stored.artifacts) = 1
                          /\ stored.artifacts[1].name = "error_details"
                          /\ DOMAIN stored.artifacts[1].data = {"error"}
                          /\ ~ worker_raised[r] /\ "error" \in DOMAIN payload =>
                                stored.artifacts[1].data.error = payload.error]_vars

\* one request has returned a COMPLETED task that holds the worker's
\* payload, the other a FAILED task that holds the worker's error message
C29_OneOfEach ==
    \E r, q \in Reqs :
        /\ pc[r] = "returned" /\ pc[q] = "returned"
        /\ request[r].task_id # request[q].task_id
        /\ worker_calls[r] = 1 /\ worker_calls[q] = 1
        /\ tasks[request[r].task_id].state = "COMPLETED"
        /\ tasks[request[r].task_id].artifacts = << [name |-> ResultName(manager), data |-> result[r]] >>
        /\ ~ worker_raised[q]
        /\ tasks[request[q].task_id].state = "FAILED"
        /\ tasks[request[q].task_id].artifacts[1].data = [error |-> "tool failed"]

\* text without its leading and trailing blanks
Trimmed(chars) ==
    LET inked == {i \in DOMAIN chars : chars[i] # " "}
    IN  IF inked = {} THEN << >>
        ELSE SubSeq(chars,
                    CHOOSE i \in inked : \A j \in inked : i <= j,
                    CHOOSE i \in inked : \A j \in inked : i >= j)

\* the trimmed text of the first text part whose text is not empty
FirstTextTrimmed(parts) ==
    LET texts == {i \in DOMAIN parts : parts[i].kind = "text" /\ parts[i].text # << >>}
    IN  IF texts = {} THEN << >>
        ELSE Trimmed(parts[CHOOSE i \in texts : \A j \in texts : i <= j].text)

\* C30: the query the handler takes is the trimmed text of the first text
\* part with non-empty text; with that query empty the worker is not
\* started and the request returns its task FAILED for missing input,
\* whatever the parts after it hold; with a query the worker is started.
C30_FirstTextPartIsQuery ==
    [][\A r \in Reqs :
          LET q == FirstTextTrimmed(request[r].parts) IN
          /\ pc[r] = "update_working" /\ pc'[r] # "update_working" =>
                /\ user_query'[r] = q
                /\ IF q = << >>
                   THEN /\ pc'[r] = "update_no_input"
                        /\ worker_calls'[r] = 0
                        /\ task'[r].state = "FAILED"
                   ELSE worker_calls'[r] = 1
          /\ Returns(r) /\ q = << >> =>
                /\ worker_calls'[r] = 0
                /\ tasks'[request[r].task_id].state = "FAILED"
                /\ Len(tasks'[request[r].task_id].artifacts) = 1
                /\ tasks'[request[r].task_id].artifacts[1].name = "error_details"
                /\ tasks'[request[r].task_id].artifacts[1].data.error \in MissingInputMessages
                /\ response'[r].task.state = "FAILED"]_vars

\* a request whose first text part is a blank and whose second holds a query
\* has returned FAILED with no worker started, and a request with a data
\* part before a padded text has its worker running on the trimmed text
C30_BlankFirstFailsPaddedRuns ==
    \E r, q \in Reqs :
        /\ pc[r] = "returned"
        /\ request[r].parts = << Text(<< " " >>), Text(<< "M" >>) >>
        /\ worker_calls[r] = 0
        /\ response[r].task.state = "FAILED"
        /\ request[q].parts = << Data, Text(<< " ", "M", " " >>) >>
        /\ user_query[q] = << "M" >>
        /\ worker_calls[q] = 1

\* the number of terminal states among the states written for a task id
RECURSIVE TerminalWrites(_)
TerminalWrites(log) ==
    IF log = << >> THEN 0
    ELSE (IF Head(log) \in Terminal THEN 1 ELSE 0) + TerminalWrites(Tail(log))

\* C31: for every task id at most one terminal state is ever written to the
\* store, and exactly one once an invocation for that id has returned, also
\* when two invocations carrying the same id interleave at their awaits.
C31_OneTerminalWrite ==
    \A t \in TaskIds :
        /\ TerminalWrites(tasks_log[t]) <= 1
        /\ (\E r \in Reqs : pc[r] = "returned" /\ request[r].task_id = t)
               => TerminalWrites(tasks_log[t]) = 1

(***************************************************************************)
(* Two connections side by side, under SpecShared.                         *)
(***************************************************************************)
\* the step is one of the handler or the relay loops of connection c
StepOf(c) ==
    \/ endpoint'[c] # endpoint[c]
    \/ session'[c] # session[c]
    \/ live_request_queue'[c] # live_request_queue[c]
    \/ adk_run_task'[c] # adk_run_task[c]
    \/ client_listener_task'[c] # client_listener_task[c]
    \/ adk_at'[c] # adk_at[c]
    \/ events_in'[c] # events_in[c]
    \/ msgs_in'[c] # msgs_in[c]
    \/ applied'[c] # applied[c]
    \/ ws_close'[c] # ws_close[c]

\* C32: for two connections on different session ids, no step of one (a
\* client message, an upstream event, a toggle_mock, its cleanup) changes
\* the other's session in the store, its state map or its existence, or what
\* the other's client has been sent; and what a client has been sent is
\* made of that connection's own upstream events alone.
C32_SessionsDoNotInterfere ==
    [][\A c, d \in Conns :
          /\ c # d
          /\ endpoint'[c] # "idle"
          /\ endpoint[d] # "idle"
          /\ session_id'[c] # session_id[d]
          /\ StepOf(c)
          => /\ session_store'[session_id[d]] = session_store[session_id[d]]
             /\ ws_out'[d] = ws_out[d]
             /\ IsPrefix(ws_out'[c], EmittedForAll(events_in'[c]))]_vars

\* one connection has set the mock flag of its session and another, on a
\* different id, has since gone through its cleanup: the first session is
\* still stored with its flag and the other is gone
C32_OtherCleanedUp ==
    \E c, d \in Conns :
        /\ session_id[c] # session_id[d]
        /\ endpoint[c] = "exited"
        /\ session[c].exists
        /\ ~ session_store[session_id[c]].exists
        /\ Live(d)
        /\ applied[d] # << >>
        /\ session_store[session_id[d]].exists
        /\ session_store[session_id[d]].state # EmptyState

\* C33: from the moment a connection has opened its session until that
\* connection's own cleanup, the store holds a session under its id and the
\* handle the relay loops use is a session, also when another connection
\* was opened on the same id and has closed first.
C33_SessionHeldUntilOwnCleanup ==
    \A c \in Conns :
        Live(c) =>
            /\ session_store[session_id[c]].exists
            /\ session[c].exists

(***************************************************************************)
(* The upstream relay and a send that fails, under Spec.                   *)
(***************************************************************************)
\* what the upstream loop has applied to the session
UpstreamApplied(c) == SelectSeq(applied[c], LAMBDA a : a.by = "adk_to_client")

\* the deltas carried by a sequence of events, one per event that has a
\* state delta with a key in it or an artifact delta
RECURSIVE DeltasCarried(_)
DeltasCarried(events) ==
    IF events = << >> THEN << >>
    ELSE (IF (\E key \in Keys : Head(events).state_delta[key] # NoChange)
              \/ Head(events).artifact_delta
          THEN << [by |-> "adk_to_client", delta |-> Head(events).state_delta] >>
          ELSE << >>)
         \o DeltasCarried(Tail(events))

\* the events whose every message has been sent
SentInFull(c) ==
    IF adk_at[c].at = "next" THEN events_in[c]
    ELSE SubSeq(events_in[c], 1, Len(events_in[c]) - 1)

\* C38: the upstream loop has applied exactly the deltas of the events whose
\* messages have all been sent: while a message of an event is still to be
\* sent its delta is not applied, after a send for it has failed the loop
\* has ended and the delta is never applied, and the deltas of all earlier
\* events have been applied, in order.
C38_DeltaOnlyAfterSends ==
    \A c \in Conns :
        /\ UpstreamApplied(c) = DeltasCarried(SentInFull(c))
        /\ Done(adk_run_task[c]) /\ adk_at[c].at # "next" =>
              /\ ~ IsPrefix(EmittedForAll(events_in[c]), ws_out[c])
              /\ Len(UpstreamApplied(c)) < Len(DeltasCarried(events_in[c]))
                    \/ DeltasCarried(<< adk_at[c].event >>) = << >>

\* the loop has ended on a failed send for its second event, which carries
\* a delta: the delta of the first event is applied and that of the second
\* is not, although the handler has gone through its cleanup since
C38_SecondDeltaLost ==
    \E c \in Conns :
        /\ endpoint[c] = "exited"
        /\ Done(adk_run_task[c])
        /\ adk_at[c].at = "turn_complete"
        /\ Len(events_in[c]) = 2
        /\ adk_at[c].event = events_in[c][2]
        /\ DeltasCarried(events_in[c]) =
              << [by |-> "adk_to_client", delta |-> DeltaOf("k", "b")],
                 [by |-> "adk_to_client", delta |-> DeltaOf("k", "a")] >>
        /\ UpstreamApplied(c) = << [by |-> "adk_to_client", delta |-> DeltaOf("k", "b")] >>

(***************************************************************************)
(* The result the blockchain handler captures, under SpecTask.             *)
(***************************************************************************)
\* the agent run of invocation r yields an event in this step
YieldsEvent(r) == pc[r] = "run_async" /\ run_events'[r] = run_events[r] + 1

\* C37: in the blockchain handler the first tool response of a run decides
\* the result: an event that arrives once a tool response has been captured
\* leaves the result as it is, and a run that ends without having raised
\* and without any tool response leaves the default error result, which is
\* classified FAILED.
C37_FirstToolResponseKept ==
    [][\A r \in Reqs :
          manager = "blockchain" =>
              /\ YieldsEvent(r) /\ result[r] # ErrDict("ADK agent execution failed.")
                    => result'[r] = result[r]
              /\ pc[r] = "aclose" /\ pc'[r] = "update_final" /\ run_events[r] = 0
                    /\ ~ worker_raised[r]
                    => /\ result[r] = ErrDict("ADK agent execution failed.")
                       /\ task'[r].state = "FAILED"]_vars

(***************************************************************************)
(* call_mcp_get_stock_price, under SpecTask with the stock handler.        *)
(***************************************************************************)
\* the failures of a run: a bad server path, a failure to start or
\* initialize the worker process or to call the tool, a timeout, an answer
\* flagged as error, without content, with non-text content, with text that
\* is not JSON, with JSON that is not an object
ListedFailure(run) ==
    \/ run.at \in {"not_absolute", "not_found"}
    \/ run.at \in {"stdio_client", "ClientSession", "initialize", "call_tool"}
    \/ run.at = "timeout"
    \/ run.at = "response" /\ run.response.isError
    \/ run.at = "response" /\ run.response.content \in {"none", "not_text", "not_json", "json_list"}

LeavesBlock(r) == manager = "stock" /\ pc[r] = "mcp_exit" /\ pc'[r] # "mcp_exit"

\* C39 as stated: call_mcp_get_stock_price returns a dict on every path and
\* never raises, every failure is a dict with an error key, and what it
\* opened is closed when it returns.
C39_DictOnEveryPath ==
    [][/\ \A run \in McpRuns : ListedFailure(run) => "error" \in DOMAIN McpResult(run)
       /\ \A r \in Reqs :
             LeavesBlock(r) =>
                 /\ ~ worker_raised'[r]
                 /\ pc'[r] = "update_final"
                 /\ resources'[r].open = {}]_vars

\* C39 amended: every failure up to and including the handling of the
\* tool's answer is returned as a dict with an error key; the call raises
\* only while the exit stack closes something it had opened; and whether it
\* returns or raises, the subprocess and the session it opened have each
\* been closed once by then, and a returned dict is the one made inside the
\* block.
C39_FailuresReportedAsDicts ==
    [][/\ \A run \in McpRuns : ListedFailure(run) => "error" \in DOMAIN McpResult(run)
       /\ \A r \in Reqs :
             /\ manager = "stock" /\ pc[r] = "call_mcp" /\ pc'[r] = "update_final" =>
                   /\ "error" \in DOMAIN result'[r]
                   /\ resources'[r] = NoResources
                   /\ task'[r].state = "FAILED"
             /\ LeavesBlock(r) =>
                   /\ resources'[r].open = {}
                   /\ \A x \in Resources :
                         resources'[r].closed[x] = IF x \in resources[r].open THEN 1 ELSE 0
                   /\ result'[r] = result[r]
                   /\ IF worker_raised'[r]
                      THEN resources[r].open # {} /\ pc'[r] = "update_error"
                      ELSE /\ pc'[r] = "update_final"
                           /\ "error" \in DOMAIN result[r] => task'[r].state = "FAILED"]_vars

\* the tool answered with text that is not JSON: the call returned the
\* error dict for it, with the subprocess and the session closed once each,
\* and the request was answered FAILED
C39_NonJsonReported ==
    \E r \in Reqs :
        /\ manager = "stock"
        /\ pc[r] = "returned"
        /\ ~ worker_raised[r]
        /\ result[r] = [error |-> "MCP tool returned non-JSON text."]
        /\ resources[r].open = {}
        /\ resources[r].closed["stdio_client"] = 1
        /\ resources[r].closed["ClientSession"] = 1
        /\ response[r].task.state = "FAILED"

(***************************************************************************)
(* Termination of task handling, under SpecTaskFair.                       *)
(***************************************************************************)
\* the worker call of invocation r has returned or raised
WorkerCallOver(r) == pc[r] \in {"aclose", "update_final", "update_error"}

LoopEnded(c) == Live(c) /\ (Done(client_listener_task[c]) \/ Done(adk_run_task[c]))

TornDown(c) ==
    /\ endpoint[c] = "exited"
    /\ live_request_queue[c].items # << >>
    /\ live_request_queue[c].items[Len(live_request_queue[c].items)] = Close
    /\ ~ session_store[session_id[c]].exists

\* C34: once a relay loop of an open connection has ended, the handler
\* eventually finishes with the queue closed and the session removed from
\* the store; and the handler of an open connection finishes without closing
\* the socket with an error code, so that a client disconnect ends the
\* connection as a normal termination.
C34_TeardownCompletes ==
    /\ \A c \in Conns : LoopEnded(c) ~> TornDown(c)
    /\ [][\A c \in Conns : Live(c) => ws_close'[c] = 0]_vars

\* the client has disconnected after the upstream loop had relayed an event:
\* the upstream task was cancelled, and the handler has finished with the
\* queue closed, the session removed and no close code
C34_DisconnectTornDown ==
    \E c \in Conns :
        /\ TornDown(c)
        /\ session[c].exists
        /\ ws_close[c] = 0
        /\ events_in[c] # << >>
        /\ client_listener_task[c] = [st |-> "done", cancel |-> FALSE]
        /\ adk_run_task[c] = [st |-> "done", cancel |-> TRUE]

(***************************************************************************)
(* The delegation tool composed with the stock handler, under              *)
(* SpecEndToEnd.                                                           *)
(***************************************************************************)
\* the invocation of on_send_task that handles the call in hand
HandlerOf(id) == CHOOSE r \in Reqs : pc[r] # "idle" /\ request[r].task_id = TaskIdOf(id)

\* the worker of invocation r has returned a success payload: a dict with a
\* price and without an error
WorkerSucceeded(r) ==
    /\ worker_calls[r] = 1
    /\ ~ worker_raised[r]
    /\ "price" \in DOMAIN result[r]
    /\ "error" \notin DOMAIN result[r]

\* C36: when call_specialist_stock_agent has returned, its value is
\* {status: success, data: d} exactly when the worker of the handling
\* invocation returned the success payload d, and {status: error, message}
\* for every other outcome (error payload, payload without price, exception
\* in the worker, missing input, protocol error); and from the moment the
\* handler has the request, its session id is the id of the calling session.
C36_EndToEndOutcome ==
    /\ delegation.pc \in {"send_task", "returned"} /\ Received =>
          request[HandlerOf(TaskSendParams.id)].sessionId = delegation.session_id
    /\ delegation.pc = "returned" =>
          LET r == HandlerOf(TaskSendParams.id) IN
          /\ Received
          /\ pc[r] = "returned"
          /\ IF WorkerSucceeded(r)
             THEN delegation.ret = [status |-> "success", data |-> result[r]]
             ELSE /\ DOMAIN delegation.ret = {"status", "message"}
                  /\ delegation.ret.status = "error"
                  /\ delegation.ret.message # << >>

\* over two calls: the first ended in a protocol error of the handler and
\* was returned as an error, the second returned the payload of its worker
C36_ErrorThenSuccess ==
    \E r, q \in Reqs :
        /\ r # q
        /\ response[r].kind = "error"
        /\ worker_raised[r]
        /\ calls = 2
        /\ delegation.pc = "returned"
        /\ q = HandlerOf(TaskSendParams.id)
        /\ result[q] = [price |-> 100, symbol |-> "ABC"]
        /\ delegation.ret = [status |-> "success", data |-> [price |-> 100, symbol |-> "ABC"]]
        /\ request[q].sessionId = delegation.session_id

====
